---- MODULE Spec2Model ----
(***************************************************************************)
(* Model of the function-invocation core of the semantic_kernel Python     *)
(* package: Kernel.run_async / Kernel.run_stream_async (kernel.py) and     *)
(* SKFunction.invoke_async / invoke_stream_async (sk_function.py).         *)
(*                                                                         *)
(* Text values are TLA+ strings; string concatenation is \o.               *)
(* Native procedures, AI clients, the template engine and event handlers   *)
(* are caller-supplied code: each of their calls is a nondeterministic     *)
(* choice among the outcomes such code can have (a result, a fault).       *)
(* Event handlers are taken to act through the flags of the event          *)
(* arguments or by raising; they do not write to the Context.              *)
(***************************************************************************)
EXTENDS Integers, Sequences, FiniteSets, TLC

\* ------------------------------------------------------------------ bounds
MaxFuncs == 2      \* longest function list passed to run / run_stream
MaxRepeat == 1     \* most repeat requests the handlers make in one run
MaxChunks == 2     \* most chunks a client streams for one completion

\* ------------------------------------------------------------------ values
None == "<None>"
Absent == "<absent>"

Keys == {"input", "question"}
Msgs == {"e1", "e2"}                 \* messages of faults raised by external code
Chunks == {"a", "b"}                 \* partial completions a client may yield
Template == "{{$input}}"             \* the prompt template of a semantic function

NoException == [type |-> None, msg |-> ""]
Exc(t, m) == [type |-> t, msg |-> m]

\* ------------------------------------------------- ContextVariables, SKContext
\* ContextVariables(content): the input slot always exists, "" by default.
ContextVariables(content) ==
  [k \in Keys |-> IF k = "input" THEN (IF content = None THEN "" ELSE content) ELSE Absent]

\* ContextVariables.update(content): writes the input slot.
update(variables, content) == [variables EXCEPT !["input"] = content]

\* ContextVariables.set(name, value)
set(variables, name, value) == [variables EXCEPT ![name] = value]

\* self.merge_or_overwrite(new_vars, overwrite): overwrite=False keeps the keys
\* self already has and only fills the gaps; overwrite=True lets new_vars win.
merge_or_overwrite(self, new_vars, overwrite) ==
  [k \in Keys |->
     IF overwrite
       THEN (IF new_vars[k] # Absent THEN new_vars[k] ELSE self[k])
       ELSE (IF self[k] # Absent THEN self[k] ELSE new_vars[k])]

NoObjects == [tool_message |-> None, function_call |-> None]

\* SKContext(variables, memory, skills); oid is the identity of the object.
SKContext(oid, variables) ==
  [oid |-> oid,
   variables |-> variables,
   error_occurred |-> FALSE,
   last_error_description |-> "",
   last_exception |-> NoException,
   objects |-> NoObjects]

\* SKContext.fail(error_description, exception)
fail(context, description, exception) ==
  [context EXCEPT !.error_occurred = TRUE,
                  !.last_error_description = description,
                  !.last_exception = exception]

NoContext == [oid |-> 0,
              variables |-> [k \in Keys |-> Absent],
              error_occurred |-> FALSE,
              last_error_description |-> "",
              last_exception |-> NoException,
              objects |-> NoObjects]

\* ------------------------------------------------------------- functions
\* What a caller can put in the list given to run: native functions, semantic
\* functions (text or chat prompt, with or without a bound AI client), and
\* objects that are no SKFunctionBase at all.
NativeFn == [kind |-> "native", chat |-> FALSE, bound |-> FALSE]
TextFn == [kind |-> "semantic", chat |-> FALSE, bound |-> TRUE]
ChatFn == [kind |-> "semantic", chat |-> TRUE, bound |-> TRUE]
UnboundFn == [kind |-> "semantic", chat |-> FALSE, bound |-> FALSE]
NotAFunction == [kind |-> "other", chat |-> FALSE, bound |-> FALSE]

FuncPool == {NativeFn, TextFn, ChatFn, UnboundFn, NotAFunction}

isSKFunctionBase(func) == func.kind \in {"native", "semantic"}
is_semantic(func) == func.kind = "semantic"

SeqsUpTo(S, n) == UNION {[1..k -> S] : k \in 0..n}

VARIABLES
  function_invoking_handlers,  \* Kernel._function_invoking_handlers, in insertion order
  function_invoked_handlers,   \* Kernel._function_invoked_handlers, in insertion order
  mode,                        \* "idle", "run" or "run_stream": the entry point called
  call_functions,              \* the function list the caller passed to the entry point
  functions,                   \* the *functions of the run_async call in progress
  stream_function,             \* run_stream_async's stream_function (None when unset)
  input_context,               \* the caller's input_context (NoContext when None)
  input_vars,                  \* the caller's input_vars (NoVars when None)
  input_str,                   \* the caller's input_str
  pc,                          \* position of the call in the code
  func_index,                  \* position of the for loop in functions (1-based)
  pipeline_step,               \* run_async's pipeline_step
  context,                     \* the local variable context
  messages,                    \* per function position, its ChatPromptTemplate.messages
  completion,                  \* the streaming stage's local variable completion
  yielded,                     \* chunks delivered to the stream consumer so far
  result,                      \* how the call ended
  repeats,                     \* repeat requests made so far
  next_oid,                    \* next free object identity
  client_calls,                \* calls made to AI clients: <<place of the function, method>>
  trace                        \* history of events, invocations and client calls

VARIABLES
  skill_collection,                          \* Kernel._skill_collection: the registered functions
  text_completion_services,                  \* Kernel._text_completion_services, in insertion order
  chat_services,                             \* Kernel._chat_services, in insertion order
  text_embedding_generation_services,        \* Kernel._text_embedding_generation_services
  default_text_completion_service,           \* Kernel._default_text_completion_service
  default_chat_service,                      \* Kernel._default_chat_service
  default_text_embedding_generation_service, \* Kernel._default_text_embedding_generation_service
  last_op                                    \* the last registry call made and how it ended

service_vars == <<text_completion_services, chat_services, text_embedding_generation_services,
                  default_text_completion_service, default_chat_service,
                  default_text_embedding_generation_service>>

kernel_vars == <<skill_collection, service_vars, last_op>>

vars == <<function_invoking_handlers, function_invoked_handlers, mode, call_functions, functions,
          stream_function, input_context, input_vars, input_str, pc, func_index,
          pipeline_step, context, messages, completion, yielded, result, repeats, next_oid,
          client_calls, trace, kernel_vars>>

NoResult == [kind |-> "none", context |-> NoContext, exception |-> NoException]
Returned(ctx) == [kind |-> "returned", context |-> ctx, exception |-> NoException]
Raised(ctx, ex) == [kind |-> "raised", context |-> ctx, exception |-> ex]
Exhausted(ctx) == [kind |-> "exhausted", context |-> ctx, exception |-> NoException]

\* ------------------------------------------------------------ call inputs
NoVars == [k \in Keys |-> Absent]                         \* input_vars=None
SomeVars == [k \in Keys |-> IF k = "input" THEN "" ELSE "v"]

OkContext == SKContext(1, [k \in Keys |-> IF k = "input" THEN "q" ELSE Absent])
FailedContext == fail(OkContext, "earlier", Exc("Exception", "earlier"))

InputContexts == {NoContext, OkContext, FailedContext}    \* NoContext: input_context=None
InputVars == {NoVars, SomeVars}
InputStrs == {None, "s"}

\* The (input_context, input_vars, input_str) combinations the pipeline is run
\* on: a string alone, a Context with extra variables, and a Context that has
\* already failed.
CallInputs ==
  {<<NoContext, NoVars, "s">>, <<OkContext, SomeVars, None>>,
   <<FailedContext, NoVars, None>>}

FirstOid == OkContext.oid + 1      \* identities below it belong to the caller's own objects

\* Faulty variant of seed_both: the variables are the receiver of the merge.
seed_both_vars_first(is, iv) == merge_or_overwrite(iv, ContextVariables(is), FALSE)

\* variables = ContextVariables(input_str)
\* variables = variables.merge_or_overwrite(new_vars=input_vars, overwrite=False)
seed_both(is, iv) == merge_or_overwrite(ContextVariables(is), iv, FALSE)

\* The context run_async / run_stream_async start from: the caller's Context
\* merged with the other inputs, or a new Context built from them.
SeedContext(ic, iv, is, oid) ==
  IF ic # NoContext
    THEN LET v1 == IF iv # NoVars
                     THEN merge_or_overwrite(iv, ic.variables, FALSE)
                     ELSE ic.variables
             v2 == IF is # None
                     THEN merge_or_overwrite(ContextVariables(is), v1, FALSE)
                     ELSE v1
         IN [ic EXCEPT !.variables = v2]
    ELSE LET variables ==
               IF is # None /\ iv = NoVars THEN ContextVariables(is)
               ELSE IF is = None /\ iv # NoVars THEN iv
               ELSE IF is # None /\ iv # NoVars THEN seed_both(is, iv)
               ELSE ContextVariables(None)
         IN SKContext(oid, variables)

\* ------------------------------------------------------------ event handlers
Handlers == {"h1"}

\* What one handler does with the event arguments it is given.
InvokingBehaviours == {"none", "cancel", "skip", "cancel_skip", "raise"}
InvokedBehaviours == {"none", "cancel", "repeat", "cancel_repeat", "raise"}

FirstRaise(b) ==
  IF \E k \in DOMAIN b : b[k] = "raise"
    THEN CHOOSE k \in DOMAIN b : b[k] = "raise" /\ \A j \in 1..(k-1) : b[j] # "raise"
    ELSE 0

\* Faulty variant of FireHandlers: the loop goes on after a handler raised.
FireHandlersAll(handlers, b, cancelNames, otherNames) ==
  [args |-> TRUE,
   raised |-> FirstRaise(b) # 0,
   called |-> Len(handlers),
   is_cancel_requested |-> \E k \in 1..Len(handlers) : b[k] \in cancelNames,
   is_other_requested |-> \E k \in 1..Len(handlers) : b[k] \in otherNames]

\* The handlers are called in registration order on one shared args object;
\* a handler that raises ends the loop (the later handlers are not called).
FireHandlers(handlers, b, cancelNames, otherNames) ==
  LET r == FirstRaise(b)
      called == IF r = 0 THEN Len(handlers) ELSE r
  IN [args |-> TRUE,
      raised |-> r # 0,
      called |-> called,
      is_cancel_requested |-> \E k \in 1..called : b[k] \in cancelNames,
      is_other_requested |-> \E k \in 1..called : b[k] \in otherNames]

NoArgs == [args |-> FALSE, raised |-> FALSE, called |-> 0,
           is_cancel_requested |-> FALSE, is_other_requested |-> FALSE]

\* Kernel.on_function_invoking: None without handlers, else the args after
\* every handler ran.  is_other_requested is is_skip_requested.
on_function_invoking(handlers) ==
  IF handlers = <<>> THEN {NoArgs}
  ELSE {FireHandlers(handlers, b, {"cancel", "cancel_skip"}, {"skip", "cancel_skip"}) :
          b \in [1..Len(handlers) -> InvokingBehaviours]}

\* Kernel.on_function_invoked; is_other_requested is is_repeat_requested.
on_function_invoked(handlers) ==
  IF handlers = <<>> THEN {NoArgs}
  ELSE {FireHandlers(handlers, b, {"cancel", "cancel_repeat"}, {"repeat", "cancel_repeat"}) :
          b \in [1..Len(handlers) -> InvokedBehaviours]}

HandlerFault == Exc("Exception", "handler failed")

\* ------------------------------------------------------- chat prompt template
Message(role, template) == [role |-> role, template |-> template, content |-> None]

\* PromptTemplate.render_async of the template engine: the template of a
\* semantic function reads the input slot; any other text renders to itself.
Render(template, ctx) ==
  IF template = Template THEN ctx.variables["input"] ELSE template

\* ChatPromptTemplate.add_message(role, message): a message that is None or
\* empty gets no content template.
add_message(msgs, role, message) ==
  Append(msgs, Message(role, IF message = "" THEN None ELSE message))

\* ChatMessage.render_message_async: renders once, later calls do nothing.
render_message(m, ctx) ==
  IF m.content = None /\ m.template # None
    THEN [m EXCEPT !.content = Render(m.template, ctx)]
    ELSE m

\* The history render_messages_async works on, after its add_user_message.
with_user_message(msgs) ==
  IF Len(msgs) = 0 \/ msgs[Len(msgs)].role \in {"assistant", "system"}
    THEN add_message(msgs, "user", Template)
    ELSE msgs

\* ChatPromptTemplate.render_messages_async when no rendering fails.
render_messages(msgs, ctx) ==
  LET ms == with_user_message(msgs)
  IN [i \in DOMAIN ms |-> render_message(ms[i], ctx)]

\* ------------------------------------------------------------- invocation
RenderFault == Exc("Exception", "render failed")
NoClient == Exc("ValueError", "AI LLM service cannot be None")

\* One way an invocation can go: the Context it returns, the chat history it
\* leaves, the calls it made to the AI client, and the fault (if any) that the
\* procedure, the template engine or the client raised or recorded.
Outcome(ctx, msgs, calls, fault) ==
  [context |-> ctx, messages |-> msgs, client_calls |-> calls, fault |-> fault]

\* What the native procedure behind a native function can do when run by its
\* delegate handler: write a variable and return a string (which the handler
\* writes to the input slot), return another Context, call context.fail, or
\* raise.
native_delegate(ctx, oid) ==
  {[raised |-> FALSE, exception |-> NoException,
    context |-> [ctx EXCEPT !.variables =
                   update(set(ctx.variables, "question", ctx.variables["input"]), "w")]],
   [raised |-> FALSE, exception |-> NoException,
    context |-> SKContext(oid, ContextVariables("n"))],
   [raised |-> FALSE, exception |-> NoException,
    context |-> fail(ctx, "gave up", Exc("Exception", "gave up"))]}
  \cup {[raised |-> TRUE, exception |-> Exc("Exception", m), context |-> ctx] : m \in Msgs}

\* SKFunction._invoke_native_async: the delegate's Context, or its fault.
invoke_native_async(ctx, oid) == native_delegate(ctx, oid)

\* context.variables.update(completion) of _local_func
write_completion(ctx, c) == [ctx EXCEPT !.variables = update(ctx.variables, c)]

\* _local_func of a text (non-chat) semantic function, after the client check:
\* faults of rendering and of the client are recorded on the Context.
local_func_text(ctx) ==
  {[context |-> fail(ctx, RenderFault.msg, RenderFault), client_calls |-> 0]}
  \cup {[context |-> fail(ctx, m, Exc("AIException", m)), client_calls |-> 1] : m \in Msgs}
  \cup {[context |-> write_completion(ctx, c), client_calls |-> 1] : c \in {"c"}}

\* What complete_chat_async can return: (completion, tool_message, function_call).
ChatResults ==
  {[completion |-> "c", tool_message |-> None, function_call |-> None],
   [completion |-> None, tool_message |-> "t", function_call |-> "f"]}

\* Faulty variant of chat_reply: the reply is dropped, neither recorded in the
\* history nor written to the Context.
chat_reply_dropped(ctx, msgs, r) == [context |-> ctx, messages |-> msgs]

\* _local_func of a chat semantic function once the messages are rendered and
\* the client has answered r.
chat_reply(ctx, msgs, r) ==
  LET m1 == IF r.tool_message # None THEN add_message(msgs, "tool", r.tool_message) ELSE msgs
      m2 == add_message(m1, "assistant", r.completion)
      o1 == IF r.tool_message # None
              THEN [ctx.objects EXCEPT !.tool_message = r.tool_message] ELSE ctx.objects
      o2 == IF r.function_call # None
              THEN [o1 EXCEPT !.function_call = r.function_call] ELSE o1
      c1 == IF r.completion # None THEN write_completion(ctx, r.completion) ELSE ctx
  IN [context |-> [c1 EXCEPT !.objects = o2], messages |-> m2]

\* Faulty variant of merge_back: the Context handed back has lost its error.
merge_back_cleared(ctx) == [ctx EXCEPT !.error_occurred = FALSE]

\* SKFunction._invoke_semantic_async merges the variables of the Context the
\* delegate returned into the Context it was given (the same object).
merge_back(ctx) ==
  [ctx EXCEPT !.variables = merge_or_overwrite(ctx.variables, ctx.variables, FALSE)]

\* The fault a native procedure left behind: the one it raised, or the one
\* it recorded itself with context.fail.
native_fault(o) ==
  IF o.raised THEN o.exception
  ELSE IF o.context.error_occurred THEN o.context.last_exception
  ELSE NoException

\* Faulty variant of client_missing: the check for a client is not made.
client_missing_never(func) == FALSE

\* if client is None: raise ValueError(...), first statement of _local_func
\* and of _local_stream_func
client_missing(func) == ~func.bound

\* Faulty variant of record_fault: the fault is caught and dropped.
record_fault_swallowed(ctx, e) == ctx

\* except Exception as e: context.fail(str(e), e); return context
record_fault(ctx, e) == fail(ctx, e.msg, e)

\* SKFunction.invoke_async(input=None, context=ctx): every outcome returns a
\* Context; whatever is raised below it is recorded with context.fail.
invoke_async(func, ctx, msgs, oid) ==
  IF ~is_semantic(func)
    THEN {Outcome(IF o.raised THEN record_fault(ctx, o.exception) ELSE o.context,
                  msgs, 0, native_fault(o)) : o \in invoke_native_async(ctx, oid)}
  ELSE IF client_missing(func)
    THEN {Outcome(record_fault(ctx, NoClient), msgs, 0, NoClient)}
  ELSE IF ~func.chat
    THEN {Outcome(merge_back(o.context), msgs, o.client_calls, o.context.last_exception) :
            o \in local_func_text(ctx)}
  ELSE
    \* render_messages_async raises: the user message stays, unrendered
    {Outcome(record_fault(ctx, RenderFault), with_user_message(msgs), 0, RenderFault)}
    \cup
    \* complete_chat_async raises
    {Outcome(merge_back(fail(ctx, m, Exc("AIException", m))), render_messages(msgs, ctx), 1,
             Exc("AIException", m)) : m \in Msgs}
    \cup
    {LET o == chat_reply(ctx, render_messages(msgs, ctx), r)
     IN Outcome(merge_back(o.context), o.messages, 1, NoException) : r \in ChatResults}

\* ----------------------------------------------------------------- history
\* e: "invoking" / "invoked" (an event was fired), "invoke" (a function was
\* invoked), "stream", "stream_end", "stream_fault" (the streaming stage);
\* i: the place of the function in the list; cin: the Context handed in;
\* cout: the Context handed back; cancel, other, raised: what the handlers
\* asked for (other is skip or repeat); fault: the fault of the invocation.
Event(e, i, cin, cout, a, fault) ==
  [e |-> e, i |-> i, cin |-> cin, cout |-> cout,
   cancel |-> a.args /\ a.is_cancel_requested,
   other |-> a.args /\ a.is_other_requested,
   raised |-> a.raised,
   fault |-> fault]

\* ------------------------------------------------------------ registry calls
\* How a call of a registration or service method ended: op is the method,
\* key what it was about, raised the exception that left it (NoException
\* when it returned).
Call(op, key, raised) == [op |-> op, key |-> key, raised |-> raised]
NoCall == Call("none", None, NoException)

\* ------------------------------------------------------------------- Init
Init ==
  /\ function_invoking_handlers = <<>>
  /\ function_invoked_handlers = <<>>
  /\ mode = "idle"
  /\ call_functions = <<>>
  /\ functions = <<>>
  /\ stream_function = NotAFunction
  /\ input_context = NoContext
  /\ input_vars = NoVars
  /\ input_str = None
  /\ pc = "idle"
  /\ func_index = 1
  /\ pipeline_step = 0
  /\ context = NoContext
  /\ messages = <<>>
  /\ completion = ""
  /\ yielded = <<>>
  /\ result = NoResult
  /\ repeats = 0
  /\ next_oid = FirstOid
  /\ client_calls = <<>>
  /\ trace = <<>>
  /\ skill_collection = {}
  /\ text_completion_services = <<>>
  /\ chat_services = <<>>
  /\ text_embedding_generation_services = <<>>
  /\ default_text_completion_service = None
  /\ default_chat_service = None
  /\ default_text_embedding_generation_service = None
  /\ last_op = NoCall

\* ------------------------------------------------------- handler registration
\* self._function_invoking_handlers[id(handler)] = handler: a dict keeps the
\* place of a key it already holds.
\* Faulty variant of add_handler: a handler added again moves to the end.
add_handler_moved(handlers, h) == Append(SelectSeq(handlers, LAMBDA x : x # h), h)

add_handler(handlers, h) ==
  IF \E k \in DOMAIN handlers : handlers[k] = h THEN handlers ELSE Append(handlers, h)

\* del self._function_invoking_handlers[id(handler)], when it is there
remove_handler(handlers, h) == SelectSeq(handlers, LAMBDA x : x # h)

call_vars == <<mode, call_functions, functions, stream_function, input_context,
               input_vars, input_str, pc,
               func_index, pipeline_step, context, messages, completion, yielded,
               result, repeats, next_oid, client_calls, trace>>

add_function_invoking_handler(h) ==
  /\ pc = "idle"
  /\ function_invoking_handlers' = add_handler(function_invoking_handlers, h)
  /\ UNCHANGED <<function_invoked_handlers, call_vars, kernel_vars>>

add_function_invoked_handler(h) ==
  /\ pc = "idle"
  /\ function_invoked_handlers' = add_handler(function_invoked_handlers, h)
  /\ UNCHANGED <<function_invoking_handlers, call_vars, kernel_vars>>

remove_function_invoking_handler(h) ==
  /\ pc = "idle"
  /\ function_invoking_handlers' = remove_handler(function_invoking_handlers, h)
  /\ UNCHANGED <<function_invoked_handlers, call_vars, kernel_vars>>

remove_function_invoked_handler(h) ==
  /\ pc = "idle"
  /\ function_invoked_handlers' = remove_handler(function_invoked_handlers, h)
  /\ UNCHANGED <<function_invoking_handlers, call_vars, kernel_vars>>

\* ---------------------------------------------------------------- run_async
handler_vars == <<function_invoking_handlers, function_invoked_handlers>>

\* run_async(*fs, input_context=ic, input_vars=iv, input_str=is) up to its loop
RunCall ==
  /\ pc = "idle"
  /\ \E fs \in SeqsUpTo(FuncPool, MaxFuncs), in \in CallInputs :
     LET ic == in[1]
         iv == in[2]
         is == in[3]
     IN
       /\ mode' = "run"
       /\ call_functions' = fs
       /\ functions' = fs
       /\ input_context' = ic
       /\ input_vars' = iv
       /\ input_str' = is
       /\ context' = SeedContext(ic, iv, is, next_oid)
       /\ next_oid' = IF ic = NoContext THEN next_oid + 1 ELSE next_oid
       /\ messages' = [i \in 1..Len(fs) |-> <<>>]
  /\ pc' = "loop"
  /\ func_index' = 1
  /\ pipeline_step' = 0
  /\ UNCHANGED <<handler_vars, kernel_vars, client_calls, stream_function, completion, yielded, result, repeats, trace>>

\* `return context` of run_async: to the caller of run, or back into
\* run_stream_async, which goes on to its streaming stage.
Return(ctx) ==
  /\ context' = ctx
  /\ IF mode = "run_stream"
       THEN pc' = "stream" /\ result' = result
       ELSE pc' = "done" /\ result' = Returned(ctx)

\* An exception leaving run_async; run_stream_async calls run_async outside
\* its try block, so it leaves run_stream_async as well.
Raise(ctx, ex) ==
  /\ context' = ctx
  /\ pc' = "done"
  /\ result' = Raised(ctx, ex)

\* break out of `while True`, then pipeline_step += 1 and the next func
NextFunction ==
  /\ func_index' = func_index + 1
  /\ pipeline_step' = pipeline_step + 1
  /\ pc' = "loop"

\* Faulty variant of already_failed: the check at the top of the loop is missing.
already_failed_never(ctx) == FALSE

\* if context.error_occurred, at the top of the loop
already_failed(ctx) == ctx.error_occurred

\* Faulty variant of invoking_cancels: a cancel request is ignored.
invoking_cancels_never(a) == FALSE

\* isinstance(args, FunctionInvokingEventArgs) and args.is_cancel_requested
invoking_cancels(a) == a.args /\ a.is_cancel_requested

\* Faulty variant of invoking_skips: a skip request is ignored.
invoking_skips_never(a) == FALSE

\* isinstance(args, FunctionInvokingEventArgs) and args.is_skip_requested
invoking_skips(a) == a.args /\ a.is_other_requested

\* Faulty variant of invoke_result: the returned Context is not assigned to context.
invoke_result_stale(o) == context

\* context = await func.invoke_async(...): the Context run_async goes on with
invoke_result(o) == o.context

\* Faulty variant of invoke_failed: the error check after the invocation is missing.
invoke_failed_never(ctx) == FALSE

\* if context.error_occurred, after the invocation
invoke_failed(ctx) == ctx.error_occurred

\* Faulty variant of after_invoke: the function-invoked event is not fired.
after_invoke_no_event == "loop"

\* After a successful invocation comes self.on_function_invoked(...)
after_invoke == "invoked"

\* Faulty variant of invoked_cancels: a cancel request is ignored.
invoked_cancels_never(a) == FALSE

\* isinstance(args, FunctionInvokedEventArgs) and args.is_cancel_requested
invoked_cancels(a) == a.args /\ a.is_cancel_requested

\* Faulty variant of invoked_repeats: a repeat request is ignored.
invoked_repeats_never(a) == FALSE

\* isinstance(args, FunctionInvokedEventArgs) and args.is_repeat_requested
invoked_repeats(a) == a.args /\ a.is_other_requested

\* Faulty variant of on_repeat: the function is invoked again at once.
on_repeat_reinvoke == "invoke"

\* continue: back to the top of `while True` for the same func
on_repeat == "loop"

\* The for loop is exhausted: return context.
RunReturn ==
  /\ pc = "loop"
  /\ func_index > Len(functions)
  /\ Return(context)
  /\ UNCHANGED <<handler_vars, kernel_vars, client_calls, mode, call_functions, functions, stream_function,
                 input_context, input_vars, input_str, func_index, pipeline_step, messages, completion,
                 yielded, repeats, next_oid, trace>>

\* An element of the list that is no SKFunctionBase.  With assertions on, the
\* assert raises.  With assertions stripped (python -O) a failed Context is
\* returned; otherwise func.describe() raises AttributeError inside the try,
\* and the except block raises AttributeError itself when it formats
\* func.skill_name for the log, before context.fail is reached.
NotAFunctionStep ==
  /\ pc = "loop"
  /\ func_index <= Len(functions)
  /\ ~isSKFunctionBase(functions[func_index])
  /\ \/ Raise(context, Exc("AssertionError", "must be SKFunctionBase instances"))
     \/ /\ already_failed(context)
        /\ Return(context)
     \/ /\ ~already_failed(context)
        /\ Raise(context, Exc("AttributeError", "skill_name"))
  /\ UNCHANGED <<handler_vars, kernel_vars, client_calls, mode, call_functions, functions, stream_function,
                 input_context, input_vars, input_str, func_index, pipeline_step, messages, completion,
                 yielded, repeats, next_oid, trace>>

\* The Context is already failed at the top of the loop: return it.
FailedContextStep ==
  /\ pc = "loop"
  /\ func_index <= Len(functions)
  /\ isSKFunctionBase(functions[func_index])
  /\ already_failed(context)
  /\ Return(context)
  /\ UNCHANGED <<handler_vars, kernel_vars, client_calls, mode, call_functions, functions, stream_function,
                 input_context, input_vars, input_str, func_index, pipeline_step, messages, completion,
                 yielded, repeats, next_oid, trace>>

\* describe(), then the function-invoking event and what run_async does with
\* its arguments: cancel returns, skip breaks, a raising handler fails the
\* Context and returns, otherwise the function is invoked next.
FunctionInvoking ==
  /\ pc = "loop"
  /\ func_index <= Len(functions)
  /\ isSKFunctionBase(functions[func_index])
  /\ ~already_failed(context)
  /\ \E a \in on_function_invoking(function_invoking_handlers) :
       /\ trace' = Append(trace, Event("invoking", func_index, context, NoContext, a, NoException))
       /\ IF a.raised
            THEN /\ Return(fail(context, HandlerFault.msg, HandlerFault))
                 /\ UNCHANGED <<func_index, pipeline_step>>
          ELSE IF invoking_cancels(a)
            THEN /\ Return(context)
                 /\ UNCHANGED <<func_index, pipeline_step>>
          ELSE IF invoking_skips(a)
            THEN /\ NextFunction
                 /\ UNCHANGED <<context, result>>
          ELSE /\ pc' = "invoke"
               /\ UNCHANGED <<context, result, func_index, pipeline_step>>
  /\ UNCHANGED <<handler_vars, kernel_vars, client_calls, mode, call_functions, functions, stream_function,
                 input_context, input_vars, input_str, messages, completion, yielded, repeats, next_oid>>

\* context = await func.invoke_async(input=None, context=context), and the
\* error check that follows it.
Invoke ==
  /\ pc = "invoke"
  /\ \E o \in invoke_async(functions[func_index], context, messages[func_index], next_oid) :
       /\ trace' = Append(trace, Event("invoke", func_index, context, o.context, NoArgs, o.fault))
       /\ messages' = [messages EXCEPT ![func_index] = o.messages]
       /\ client_calls' = client_calls \o [k \in 1..o.client_calls |-> <<func_index, "complete">>]
       /\ next_oid' = IF o.context.oid = next_oid THEN next_oid + 1 ELSE next_oid
       /\ IF invoke_failed(invoke_result(o))
            THEN Return(invoke_result(o))
            ELSE /\ context' = invoke_result(o)
                 /\ pc' = after_invoke
                 /\ UNCHANGED result
  /\ UNCHANGED <<handler_vars, kernel_vars, mode, call_functions, functions, stream_function,
                 input_context, input_vars, input_str, func_index, pipeline_step, completion, yielded, repeats>>

\* The function-invoked event: cancel returns, repeat runs the step again for
\* the same function, a raising handler fails the Context and returns,
\* otherwise the loop moves on.
FunctionInvoked ==
  /\ pc = "invoked"
  /\ \E a \in on_function_invoked(function_invoked_handlers) :
       /\ (a.args /\ a.is_other_requested) => repeats < MaxRepeat
       /\ trace' = Append(trace, Event("invoked", func_index, context, NoContext, a, NoException))
       /\ IF a.raised
            THEN /\ Return(fail(context, HandlerFault.msg, HandlerFault))
                 /\ UNCHANGED <<func_index, pipeline_step, repeats>>
          ELSE IF invoked_cancels(a)
            THEN /\ Return(context)
                 /\ UNCHANGED <<func_index, pipeline_step, repeats>>
          ELSE IF invoked_repeats(a)
            THEN /\ pc' = on_repeat
                 /\ repeats' = repeats + 1
                 /\ UNCHANGED <<context, result, func_index, pipeline_step>>
          ELSE /\ NextFunction
               /\ UNCHANGED <<context, result, repeats>>
  /\ UNCHANGED <<handler_vars, kernel_vars, client_calls, mode, call_functions, functions, stream_function,
                 input_context, input_vars, input_str, messages, completion, yielded, next_oid>>

\* --------------------------------------------------------- run_stream_async
StreamError == Exc("KernelException", "Error occurred while invoking stream function")

\* run_stream_async(*fs, input_context=ic, input_vars=iv, input_str=is) up to
\* its try block.  With several functions it calls
\* self.run_async(pipeline_functions, input_context, input_vars, input_str):
\* all four arguments are positional, so run_async receives them as its
\* *functions (the tuple of functions and the three inputs, none of them an
\* SKFunctionBase) and no input at all.
RunStreamCall ==
  /\ pc = "idle"
  /\ \E fs \in SeqsUpTo(FuncPool, MaxFuncs), in \in CallInputs :
     LET ic == in[1]
         iv == in[2]
         is == in[3]
     IN
       /\ mode' = "run_stream"
       /\ call_functions' = fs
       /\ input_context' = ic
       /\ input_vars' = iv
       /\ input_str' = is
       /\ messages' = [i \in 1..Len(fs) |-> <<>>]
       /\ \/ /\ Len(fs) > 1
             /\ stream_function' = fs[Len(fs)]
             /\ functions' = <<NotAFunction, NotAFunction, NotAFunction, NotAFunction>>
             /\ context' = SeedContext(NoContext, NoVars, None, next_oid)
             /\ next_oid' = next_oid + 1
             /\ pc' = "loop"
             /\ result' = result
          \/ /\ Len(fs) = 1
             /\ stream_function' = fs[1]
             /\ functions' = <<>>
             /\ context' = SeedContext(ic, iv, is, next_oid)
             /\ next_oid' = IF ic = NoContext THEN next_oid + 1 ELSE next_oid
             /\ pc' = "stream"
             /\ result' = result
          \/ /\ Len(fs) = 0
             /\ stream_function' = stream_function
             /\ functions' = <<>>
             /\ context' = context
             /\ next_oid' = next_oid
             /\ pc' = "done"
             /\ result' = Raised(NoContext, Exc("ValueError", "No functions passed to run"))
  /\ func_index' = 1
  /\ pipeline_step' = 0
  /\ UNCHANGED <<handler_vars, kernel_vars, client_calls, completion, yielded, repeats, trace>>

stream_index == Len(call_functions)    \* place of stream_function in the caller's list

\* The consumer starts iterating stream_function.invoke_stream_async(
\* input=None, context=context): the code that runs before the first chunk.
StreamStart ==
  /\ pc = "stream"
  /\ trace' = Append(trace, Event("stream", stream_index, context, NoContext, NoArgs, NoException))
  /\ \/ \* no invoke_stream_async attribute; the except block fails formatting its log line
        /\ ~isSKFunctionBase(stream_function)
        /\ Raise(context, Exc("AttributeError", "skill_name"))
        /\ UNCHANGED <<messages, client_calls>>
     \/ \* _local_stream_func raises before its try block: no client
        /\ is_semantic(stream_function) /\ client_missing(stream_function)
        /\ Raise(fail(context, NoClient.msg, NoClient), StreamError)
        /\ UNCHANGED <<messages, client_calls>>
     \/ \* rendering fails: _local_stream_func records it and ends the stream
        /\ is_semantic(stream_function) /\ ~client_missing(stream_function)
        /\ UNCHANGED client_calls
        /\ context' = fail(context, RenderFault.msg, RenderFault)
        /\ result' = Exhausted(context')
        /\ pc' = "done"
        /\ messages' = IF stream_function.chat
                         THEN [messages EXCEPT ![stream_index] = with_user_message(@)]
                         ELSE messages
     \/ \* rendered: the client is asked for its stream
        /\ is_semantic(stream_function) /\ ~client_missing(stream_function)
        /\ client_calls' = Append(client_calls, <<stream_index, "complete_stream">>)
        /\ pc' = "streaming"
        /\ messages' = IF stream_function.chat
                         THEN [messages EXCEPT ![stream_index] = render_messages(@, context)]
                         ELSE messages
        /\ UNCHANGED <<context, result>>
     \/ \* _invoke_native_stream_async iterates the delegate
        /\ stream_function.kind = "native"
        /\ pc' = "streaming"
        /\ UNCHANGED <<context, result, messages, client_calls>>
  /\ completion' = ""
  /\ UNCHANGED <<handler_vars, kernel_vars, mode, call_functions, functions, stream_function,
                 input_context, input_vars, input_str, func_index, pipeline_step,
                 yielded, repeats, next_oid>>

\* Faulty variant of accumulate: completion = partial_content
accumulate_last(done, partial_content) == partial_content

\* completion += partial_content; yield partial_content
accumulate(done, partial_content) == done \o partial_content

\* One chunk arrives and is passed on to the consumer.  A chat client may
\* deliver it inside an object that also carries a tool message.
StreamChunk ==
  /\ pc = "streaming"
  /\ Len(yielded) < MaxChunks
  /\ \E c \in Chunks :
       /\ completion' = accumulate(completion, c)
       /\ yielded' = Append(yielded, c)
  /\ \/ UNCHANGED <<messages, context>>
     \/ /\ is_semantic(stream_function) /\ stream_function.chat
        /\ messages' = [messages EXCEPT ![stream_index] = add_message(@, "tool", "t")]
        /\ context' = [context EXCEPT !.objects.tool_message = "t"]
  /\ UNCHANGED <<handler_vars, kernel_vars, client_calls, mode, call_functions, functions, stream_function,
                 input_context, input_vars, input_str, pc, func_index, pipeline_step,
                 result, repeats, next_oid, trace>>

\* The source of chunks raises.  _local_stream_func catches it, fails the
\* Context and ends; a native function's fault reaches invoke_stream_async,
\* which fails the Context and raises a KernelException.
StreamFault ==
  /\ pc = "streaming"
  /\ \E m \in Msgs :
       LET failed == fail(context, m, Exc("Exception", m))
       IN /\ IF is_semantic(stream_function)
               THEN /\ context' = failed
                    /\ result' = Exhausted(failed)
                    /\ pc' = "done"
               ELSE Raise(failed, StreamError)
          /\ trace' = Append(trace, Event("stream_fault", stream_index, context, failed,
                                          NoArgs, Exc("Exception", m)))
  /\ UNCHANGED <<handler_vars, kernel_vars, client_calls, mode, call_functions, functions, stream_function,
                 input_context, input_vars, input_str, func_index, pipeline_step,
                 messages, completion, yielded, repeats, next_oid>>

\* What the streaming stage writes once its source is exhausted.
stream_finish(ctx, done) == [ctx EXCEPT !.variables = update(ctx.variables, done)]

\* The source is exhausted: the full completion goes to the chat history and
\* to the input slot, and the stream ends.
StreamEnd ==
  /\ pc = "streaming"
  /\ messages' = IF is_semantic(stream_function) /\ stream_function.chat
                   THEN [messages EXCEPT ![stream_index] = add_message(@, "assistant", completion)]
                   ELSE messages
  /\ context' = stream_finish(context, completion)
  /\ result' = Exhausted(context')
  /\ pc' = "done"
  /\ trace' = Append(trace, Event("stream_end", stream_index, context, context', NoArgs,
                                  NoException))
  /\ UNCHANGED <<handler_vars, kernel_vars, client_calls, mode, call_functions, functions, stream_function,
                 input_context, input_vars, input_str, func_index, pipeline_step,
                 completion, yielded, repeats, next_oid>>

\* ------------------------------------------------------------ specification
Next ==
  \/ \E h \in Handlers : add_function_invoking_handler(h)
  \/ \E h \in Handlers : add_function_invoked_handler(h)
  \/ \E h \in Handlers : remove_function_invoking_handler(h)
  \/ \E h \in Handlers : remove_function_invoked_handler(h)
  \/ RunCall
  \/ RunStreamCall
  \/ RunReturn
  \/ NotAFunctionStep
  \/ FailedContextStep
  \/ FunctionInvoking
  \/ Invoke
  \/ FunctionInvoked
  \/ StreamStart
  \/ StreamChunk
  \/ StreamFault
  \/ StreamEnd

Spec == Init /\ [][Next]_vars

\* ===================================================== AI service registry
\* A Python dict keeps its keys in insertion order: a sequence of
\* [service_id, factory] entries, at most one per service_id.
has_key(d, k) == \E i \in DOMAIN d : d[i].service_id = k
dict_get(d, k) == d[CHOOSE i \in DOMAIN d : d[i].service_id = k].factory
dict_keys(d) == [i \in DOMAIN d |-> d[i].service_id]

\* d[k] = v: a key already there keeps its place
dict_set(d, k, v) ==
  IF has_key(d, k)
    THEN [i \in DOMAIN d |-> IF d[i].service_id = k THEN [service_id |-> k, factory |-> v] ELSE d[i]]
    ELSE Append(d, [service_id |-> k, factory |-> v])

\* del d[k]
dict_del(d, k) == SelectSeq(d, LAMBDA e : e.service_id # k)

\* next(iter(d), None)
first_key(d) == IF d = <<>> THEN None ELSE d[1].service_id

\* What a caller hands to add_*_service: a client object or a factory
\* (callable) producing one; text says whether the client is (also) a
\* TextCompletionClientBase.
ChatTextClient == [client |-> "x", callable |-> FALSE, text |-> TRUE]
ChatTextFactory == [client |-> "x", callable |-> TRUE, text |-> TRUE]
ChatOnlyClient == [client |-> "y", callable |-> FALSE, text |-> FALSE]
ServicePool == {ChatTextClient, ChatTextFactory, ChatOnlyClient}
TextServicePool == {ChatTextClient, ChatTextFactory}

ServiceIds == {"a", "b"}
ServiceIdArgs == ServiceIds \cup {""}

\* The overwrite argument as the caller writes it; left out, each method has
\* its own default.
OverwriteArgs == {"omitted", "True", "False"}
overwrite_value(arg, default) == IF arg = "omitted" THEN default ELSE arg = "True"

\* The overwrite arguments that differ in effect: left out, or set against the
\* method's default.
OverwriteChoices(default) == {"omitted", IF default THEN "False" ELSE "True"}

\* service if isinstance(service, Callable) else lambda _: service
as_factory(service) ==
  [client |-> service.client, text |-> service.text, wraps_instance |-> ~service.callable]

\* isinstance(service, TextCompletionClientBase): true of a client object
\* only, never of a factory function
isinstance_text(service) == ~service.callable /\ service.text

EmptyServiceId == Exc("ValueError", "service_id must be a non-empty string")
ServiceExists == Exc("ValueError", "service already exists")
ServiceMissing == Exc("ValueError", "service does not exist")

\* Faulty variant of duplicate_service: a registered id is never seen.
duplicate_service_unseen(services, service_id, overwrite) == FALSE

\* if not overwrite and service_id in self._..._services
duplicate_service(services, service_id, overwrite) ==
  ~overwrite /\ has_key(services, service_id)

\* Faulty variant of default_after_add: every add makes its id the default.
default_after_add_latest(default, service_id) == service_id

\* if self._default_..._service is None: self._default_..._service = service_id
default_after_add(default, service_id) == IF default = None THEN service_id ELSE default

add_text_completion_service(service_id, service, overwrite_arg) ==
  /\ UNCHANGED <<handler_vars, call_vars, skill_collection>>
  /\ LET overwrite == overwrite_value(overwrite_arg, TRUE)
     IN IF service_id = ""
          THEN /\ last_op' = Call("add_text_completion_service", service_id, EmptyServiceId)
               /\ UNCHANGED service_vars
        ELSE IF duplicate_service(text_completion_services, service_id, overwrite)
          THEN /\ last_op' = Call("add_text_completion_service", service_id, ServiceExists)
               /\ UNCHANGED service_vars
        ELSE /\ text_completion_services' =
                  dict_set(text_completion_services, service_id, as_factory(service))
             /\ default_text_completion_service' =
                  default_after_add(default_text_completion_service, service_id)
             /\ last_op' = Call("add_text_completion_service", service_id, NoException)
             /\ UNCHANGED <<chat_services, text_embedding_generation_services,
                            default_chat_service, default_text_embedding_generation_service>>

\* if isinstance(service, TextCompletionClientBase): also a text service
also_text_completion(service) == isinstance_text(service)

\* add_chat_service; a client object that is a text-completion client as well
\* goes through self.add_text_completion_service(service_id, service), whose
\* overwrite is then its default, True.
add_chat_service(service_id, service, overwrite_arg) ==
  /\ UNCHANGED <<handler_vars, call_vars, skill_collection>>
  /\ LET overwrite == overwrite_value(overwrite_arg, TRUE)
     IN IF service_id = ""
          THEN /\ last_op' = Call("add_chat_service", service_id, EmptyServiceId)
               /\ UNCHANGED service_vars
        ELSE IF duplicate_service(chat_services, service_id, overwrite)
          THEN /\ last_op' = Call("add_chat_service", service_id, ServiceExists)
               /\ UNCHANGED service_vars
        ELSE /\ chat_services' = dict_set(chat_services, service_id, as_factory(service))
             /\ default_chat_service' = default_after_add(default_chat_service, service_id)
             /\ IF also_text_completion(service)
                  THEN /\ text_completion_services' =
                            dict_set(text_completion_services, service_id, as_factory(service))
                       /\ default_text_completion_service' =
                            default_after_add(default_text_completion_service, service_id)
                  ELSE UNCHANGED <<text_completion_services, default_text_completion_service>>
             /\ last_op' = Call("add_chat_service", service_id, NoException)
             /\ UNCHANGED <<text_embedding_generation_services,
                            default_text_embedding_generation_service>>

add_text_embedding_generation_service(service_id, service, overwrite_arg) ==
  /\ UNCHANGED <<handler_vars, call_vars, skill_collection>>
  /\ LET overwrite == overwrite_value(overwrite_arg, FALSE)
     IN IF service_id = ""
          THEN /\ last_op' = Call("add_text_embedding_generation_service", service_id, EmptyServiceId)
               /\ UNCHANGED service_vars
        ELSE IF duplicate_service(text_embedding_generation_services, service_id, overwrite)
          THEN /\ last_op' = Call("add_text_embedding_generation_service", service_id, ServiceExists)
               /\ UNCHANGED service_vars
        ELSE /\ text_embedding_generation_services' =
                  dict_set(text_embedding_generation_services, service_id, as_factory(service))
             /\ default_text_embedding_generation_service' =
                  default_after_add(default_text_embedding_generation_service, service_id)
             /\ last_op' = Call("add_text_embedding_generation_service", service_id, NoException)
             /\ UNCHANGED <<text_completion_services, chat_services,
                            default_text_completion_service, default_chat_service>>

\* Faulty variant of unknown_service: any id is accepted.
unknown_service_accepted(services, service_id) == FALSE

\* if service_id not in self._..._services: raise ValueError
unknown_service(services, service_id) == ~has_key(services, service_id)

set_default_text_completion_service(service_id) ==
  /\ UNCHANGED <<handler_vars, call_vars, skill_collection>>
  /\ IF unknown_service(text_completion_services, service_id)
       THEN /\ last_op' = Call("set_default_text_completion_service", service_id, ServiceMissing)
            /\ UNCHANGED service_vars
       ELSE /\ default_text_completion_service' = service_id
            /\ last_op' = Call("set_default_text_completion_service", service_id, NoException)
            /\ UNCHANGED <<text_completion_services, chat_services,
                           text_embedding_generation_services, default_chat_service,
                           default_text_embedding_generation_service>>

set_default_chat_service(service_id) ==
  /\ UNCHANGED <<handler_vars, call_vars, skill_collection>>
  /\ IF unknown_service(chat_services, service_id)
       THEN /\ last_op' = Call("set_default_chat_service", service_id, ServiceMissing)
            /\ UNCHANGED service_vars
       ELSE /\ default_chat_service' = service_id
            /\ last_op' = Call("set_default_chat_service", service_id, NoException)
            /\ UNCHANGED <<text_completion_services, chat_services,
                           text_embedding_generation_services, default_text_completion_service,
                           default_text_embedding_generation_service>>

set_default_text_embedding_generation_service(service_id) ==
  /\ UNCHANGED <<handler_vars, call_vars, skill_collection>>
  /\ IF unknown_service(text_embedding_generation_services, service_id)
       THEN /\ last_op' = Call("set_default_text_embedding_generation_service", service_id,
                               ServiceMissing)
            /\ UNCHANGED service_vars
       ELSE /\ default_text_embedding_generation_service' = service_id
            /\ last_op' = Call("set_default_text_embedding_generation_service", service_id,
                               NoException)
            /\ UNCHANGED <<text_completion_services, chat_services,
                           text_embedding_generation_services, default_text_completion_service,
                           default_chat_service>>

\* Faulty variant of default_after_remove: the default is left as it was.
default_after_remove_kept(default, service_id, remaining) == default

\* if self._default_..._service == service_id: the first remaining key, or None
default_after_remove(default, service_id, remaining) ==
  IF default = service_id THEN first_key(remaining) ELSE default

remove_text_completion_service(service_id) ==
  /\ UNCHANGED <<handler_vars, call_vars, skill_collection>>
  /\ IF unknown_service(text_completion_services, service_id)
       THEN /\ last_op' = Call("remove_text_completion_service", service_id, ServiceMissing)
            /\ UNCHANGED service_vars
       ELSE /\ text_completion_services' = dict_del(text_completion_services, service_id)
            /\ default_text_completion_service' =
                 default_after_remove(default_text_completion_service, service_id,
                                      text_completion_services')
            /\ last_op' = Call("remove_text_completion_service", service_id, NoException)
            /\ UNCHANGED <<chat_services, text_embedding_generation_services,
                           default_chat_service, default_text_embedding_generation_service>>

remove_chat_service(service_id) ==
  /\ UNCHANGED <<handler_vars, call_vars, skill_collection>>
  /\ IF unknown_service(chat_services, service_id)
       THEN /\ last_op' = Call("remove_chat_service", service_id, ServiceMissing)
            /\ UNCHANGED service_vars
       ELSE /\ chat_services' = dict_del(chat_services, service_id)
            /\ default_chat_service' =
                 default_after_remove(default_chat_service, service_id, chat_services')
            /\ last_op' = Call("remove_chat_service", service_id, NoException)
            /\ UNCHANGED <<text_completion_services, text_embedding_generation_services,
                           default_text_completion_service,
                           default_text_embedding_generation_service>>

remove_text_embedding_generation_service(service_id) ==
  /\ UNCHANGED <<handler_vars, call_vars, skill_collection>>
  /\ IF unknown_service(text_embedding_generation_services, service_id)
       THEN /\ last_op' = Call("remove_text_embedding_generation_service", service_id,
                               ServiceMissing)
            /\ UNCHANGED service_vars
       ELSE /\ text_embedding_generation_services' =
                 dict_del(text_embedding_generation_services, service_id)
            /\ default_text_embedding_generation_service' =
                 default_after_remove(default_text_embedding_generation_service, service_id,
                                      text_embedding_generation_services')
            /\ last_op' = Call("remove_text_embedding_generation_service", service_id,
                               NoException)
            /\ UNCHANGED <<text_completion_services, chat_services,
                           default_text_completion_service, default_chat_service>>

clear_all_text_completion_services ==
  /\ UNCHANGED <<handler_vars, call_vars, skill_collection>>
  /\ text_completion_services' = <<>>
  /\ default_text_completion_service' = None
  /\ last_op' = Call("clear_all_text_completion_services", None, NoException)
  /\ UNCHANGED <<chat_services, text_embedding_generation_services,
                 default_chat_service, default_text_embedding_generation_service>>

clear_all_chat_services ==
  /\ UNCHANGED <<handler_vars, call_vars, skill_collection>>
  /\ chat_services' = <<>>
  /\ default_chat_service' = None
  /\ last_op' = Call("clear_all_chat_services", None, NoException)
  /\ UNCHANGED <<text_completion_services, text_embedding_generation_services,
                 default_text_completion_service, default_text_embedding_generation_service>>

clear_all_text_embedding_generation_services ==
  /\ UNCHANGED <<handler_vars, call_vars, skill_collection>>
  /\ text_embedding_generation_services' = <<>>
  /\ default_text_embedding_generation_service' = None
  /\ last_op' = Call("clear_all_text_embedding_generation_services", None, NoException)
  /\ UNCHANGED <<text_completion_services, chat_services,
                 default_text_completion_service, default_chat_service>>

clear_all_services ==
  /\ UNCHANGED <<handler_vars, call_vars, skill_collection>>
  /\ text_completion_services' = <<>>
  /\ chat_services' = <<>>
  /\ text_embedding_generation_services' = <<>>
  /\ default_text_completion_service' = None
  /\ default_chat_service' = None
  /\ default_text_embedding_generation_service' = None
  /\ last_op' = Call("clear_all_services", None, NoException)

\* Kernel.get_ai_service(type, service_id), type one of the three client base
\* classes or anything else; service_id None when left out.  The factory is
\* returned as stored, not called.
ServiceTypes == {"TextCompletionClientBase", "ChatCompletionClientBase",
                 "EmbeddingGeneratorBase", "object"}
UnknownServiceType == Exc("ValueError", "Unknown AI service type")
ServiceNotFound == Exc("ValueError", "service not found")

\* Faulty variant of id_or_default: the default wins whenever there is one.
default_or_id(service_id, default) == IF default # None THEN default ELSE service_id

\* service_id or self._default_..._service
id_or_default(service_id, default) ==
  IF service_id = None \/ service_id = "" THEN default ELSE service_id

get_ai_service(type, service_id) ==
  LET wanted(default) == id_or_default(service_id, default)
      lookup(services, default) ==
        IF has_key(services, wanted(default))
          THEN [raised |-> NoException, factory |-> dict_get(services, wanted(default))]
          ELSE [raised |-> ServiceNotFound, factory |-> None]
  IN IF type = "TextCompletionClientBase"
       THEN lookup(text_completion_services, default_text_completion_service)
     ELSE IF type = "ChatCompletionClientBase"
       THEN lookup(chat_services, default_chat_service)
     ELSE IF type = "EmbeddingGeneratorBase"
       THEN lookup(text_embedding_generation_services, default_text_embedding_generation_service)
     ELSE [raised |-> UnknownServiceType, factory |-> None]

\* The service calls a program makes on one Kernel, in any order.
EmbeddingServiceIdArgs == {"", "a"}

ServiceNext ==
  \/ \E id \in ServiceIdArgs, sv \in TextServicePool, ow \in OverwriteChoices(TRUE) :
       add_text_completion_service(id, sv, ow)
  \/ \E id \in ServiceIdArgs, sv \in ServicePool, ow \in OverwriteChoices(TRUE) :
       add_chat_service(id, sv, ow)
  \/ \E id \in EmbeddingServiceIdArgs, ow \in OverwriteChoices(FALSE) :
       add_text_embedding_generation_service(id, ChatOnlyClient, ow)
  \/ \E id \in ServiceIds : set_default_text_completion_service(id)
  \/ \E id \in ServiceIds : set_default_chat_service(id)
  \/ \E id \in ServiceIds : set_default_text_embedding_generation_service(id)
  \/ \E id \in ServiceIds : remove_text_completion_service(id)
  \/ \E id \in ServiceIds : remove_chat_service(id)
  \/ \E id \in ServiceIds : remove_text_embedding_generation_service(id)
  \/ clear_all_text_completion_services
  \/ clear_all_chat_services
  \/ clear_all_text_embedding_generation_services
  \/ clear_all_services

ServiceSpec == Init /\ [][ServiceNext]_vars

\* ================================================================== claims
Last == trace[Len(trace)]
AllFunctions == \A i \in DOMAIN functions : isSKFunctionBase(functions[i])
Count(P(_)) == Cardinality({k \in DOMAIN trace : P(trace[k])})

\* C1: in run, when the invocation of a function leaves the error flag set,
\* nothing happens after it (no event, no invocation of a later function),
\* run has returned, and the returned Context's error description is that
\* function's fault message.
C1_FailFast ==
  mode = "run" =>
    \A k \in DOMAIN trace :
      (trace[k].e = "invoke" /\ trace[k].cout.error_occurred) =>
        /\ k = Len(trace)
        /\ pc = "done"
        /\ result.kind = "returned"
        /\ result.context.error_occurred
        /\ result.context.last_error_description = trace[k].fault.msg

C1_Witness ==
  /\ mode = "run" /\ pc = "done"
  /\ Len(functions) = 2 /\ AllFunctions
  /\ trace # <<>> /\ Last.e = "invoke" /\ Last.i = 1
  /\ Last.cout.error_occurred
  /\ result.context.last_error_description = "e2"

\* C2: in run, a fault raised by a native procedure, by rendering or by the AI
\* client never escapes: run returns a Context whose error flag is set and
\* whose description and exception are that fault; run raises only when an
\* element of the list is not a function.
C2_NoEscape ==
  mode = "run" =>
    /\ \A k \in DOMAIN trace :
         (trace[k].e = "invoke" /\ trace[k].fault # NoException) =>
           /\ result.kind = "returned"
           /\ result.context.error_occurred
           /\ result.context.last_error_description = trace[k].fault.msg
           /\ result.context.last_exception = trace[k].fault
    /\ result.kind = "raised" =>
         /\ func_index \in DOMAIN functions
         /\ ~isSKFunctionBase(functions[func_index])

C2_Witness ==
  /\ mode = "run" /\ pc = "done" /\ result.kind = "returned"
  /\ trace # <<>> /\ Last.e = "invoke"
  /\ functions[Last.i].kind = "native"
  /\ Last.fault = Exc("Exception", "e1")
  /\ result.context.last_exception = Exc("Exception", "e1")

Invocations == SelectSeq(trace, LAMBDA ev : ev.e = "invoke")
HandlerRaised == \E k \in DOMAIN trace : trace[k].raised

\* C3: run invokes the functions in list order, and each invocation receives
\* exactly the Context the previous invocation returned; what run goes on
\* with, and finally returns, is the Context of the last invocation.
C3_InOrder ==
  mode = "run" =>
    /\ \A k \in 1..(Len(Invocations) - 1) :
         /\ Invocations[k].i <= Invocations[k + 1].i
         /\ Invocations[k + 1].cin = Invocations[k].cout
    /\ \A k \in DOMAIN Invocations : Invocations[k].i \in DOMAIN functions
    /\ (Len(Invocations) > 0 /\ ~HandlerRaised /\ result.kind # "raised") =>
         /\ context = Invocations[Len(Invocations)].cout
         /\ pc = "done" => result = Returned(context)

C3_Witness ==
  /\ mode = "run" /\ pc = "done" /\ result.kind = "returned"
  /\ Len(Invocations) = 2
  /\ Invocations[1].i = 1 /\ Invocations[2].i = 2
  /\ Invocations[1].cout.oid # Invocations[1].cin.oid
  /\ Invocations[2].cin = Invocations[1].cout
  /\ result.context = Invocations[2].cout

\* C4: in run, every invocation comes right after one firing of the
\* function-invoking event for the same function (which asked neither for
\* cancel nor for skip), every invocation that returns without the error flag
\* is followed at once by one firing of the function-invoked event, and that
\* event is fired at no other moment.
C4_EventsBracket ==
  mode = "run" =>
    \A k \in DOMAIN trace :
      /\ trace[k].e = "invoke" =>
           /\ k > 1
           /\ trace[k - 1].e = "invoking"
           /\ trace[k - 1].i = trace[k].i
           /\ ~trace[k - 1].cancel /\ ~trace[k - 1].other /\ ~trace[k - 1].raised
      /\ (trace[k].e = "invoke" /\ ~trace[k].cout.error_occurred) =>
           IF k = Len(trace)
             THEN pc = "invoked"
             ELSE trace[k + 1].e = "invoked" /\ trace[k + 1].i = trace[k].i
      /\ trace[k].e = "invoked" =>
           /\ k > 1
           /\ trace[k - 1].e = "invoke"
           /\ trace[k - 1].i = trace[k].i
           /\ ~trace[k - 1].cout.error_occurred

C4_Witness ==
  /\ mode = "run" /\ pc = "done"
  /\ Len(trace) = 4
  /\ trace[1].e = "invoking" /\ trace[1].other
  /\ trace[2].e = "invoking" /\ trace[3].e = "invoke" /\ trace[4].e = "invoked"
  /\ function_invoking_handlers # <<>> /\ function_invoked_handlers # <<>>

\* C5: when the function-invoking event asks for cancel, run stops there:
\* nothing is invoked or fired afterwards and run returns the Context as it
\* was when the event was fired, its error flag not set.
C5_PreCancel ==
  mode = "run" =>
    \A k \in DOMAIN trace :
      (trace[k].e = "invoking" /\ trace[k].cancel /\ ~trace[k].raised) =>
        /\ k = Len(trace)
        /\ pc = "done"
        /\ result = Returned(trace[k].cin)
        /\ ~result.context.error_occurred

C5_Witness ==
  /\ mode = "run" /\ pc = "done"
  /\ Len(functions) = 2 /\ AllFunctions
  /\ Len(trace) = 4 /\ Last.e = "invoking" /\ Last.cancel /\ Last.i = 2
  /\ result.context = trace[2].cout

\* C6: when the function-invoking event asks for skip (and not for cancel),
\* the function is not invoked, the Context keeps every variable, and run
\* moves on to the next function of the list.
C6_PreSkip ==
  mode = "run" =>
    \A k \in DOMAIN trace :
      (trace[k].e = "invoking" /\ trace[k].other /\ ~trace[k].cancel /\ ~trace[k].raised) =>
        IF k = Len(trace)
          THEN /\ context = trace[k].cin
               /\ func_index = trace[k].i + 1
               /\ pc \in {"loop", "done"}
          ELSE /\ trace[k + 1].e = "invoking"
               /\ trace[k + 1].i = trace[k].i + 1
               /\ trace[k + 1].cin = trace[k].cin

C6_Witness ==
  /\ mode = "run" /\ pc = "done" /\ result.kind = "returned"
  /\ Len(trace) = 3
  /\ trace[1].e = "invoking" /\ trace[1].other /\ ~trace[1].cancel /\ trace[1].i = 1
  /\ trace[2].e = "invoking" /\ trace[2].i = 2
  /\ trace[3].e = "invoke" /\ trace[3].i = 2
  /\ trace[3].cin.variables = trace[1].cin.variables

InvocationsOf(i) == Count(LAMBDA ev : ev.e = "invoke" /\ ev.i = i)
RepeatSignals(i) == Count(LAMBDA ev : ev.e = "invoked" /\ ev.i = i /\ ev.other)
\* function i never failed and no handler cancelled, skipped or raised on it
Undisturbed(i) ==
  \A k \in DOMAIN trace :
    trace[k].i = i =>
      /\ ~trace[k].cancel /\ ~trace[k].raised
      /\ trace[k].e = "invoking" => ~trace[k].other
      /\ trace[k].e = "invoke" => ~trace[k].cout.error_occurred

\* C7: once run has moved past a function that never failed and on which no
\* handler cancelled or skipped, the function has been invoked once more than
\* the function-invoked event asked for repeat.
C7_RepeatCount ==
  mode = "run" =>
    \A i \in DOMAIN functions :
      (func_index > i /\ Undisturbed(i)) => InvocationsOf(i) = RepeatSignals(i) + 1

C7_Witness ==
  /\ mode = "run" /\ func_index > 1 /\ Undisturbed(1)
  /\ RepeatSignals(1) = MaxRepeat
  /\ InvocationsOf(1) = MaxRepeat + 1

\* C8: run on a list of functions with an input Context whose error flag is
\* already set invokes nothing, fires no event, and returns that same Context
\* with the flag and the description still set.
C8_FailedInput ==
  (mode = "run" /\ input_context.error_occurred /\ AllFunctions) =>
    /\ trace = <<>>
    /\ pc \in {"loop", "done"}
    /\ context.oid = input_context.oid
    /\ context.error_occurred
    /\ context.last_error_description = input_context.last_error_description
    /\ pc = "done" => result = Returned(context)

C8_Witness ==
  /\ mode = "run" /\ input_context.error_occurred /\ AllFunctions
  /\ Len(functions) = 2
  /\ pc = "done" /\ result.kind = "returned"
  /\ result.context.last_error_description = "earlier"
  /\ function_invoking_handlers # <<>>

\* C9: in run_stream with more than one function, the functions before the
\* last one are run as a pipeline, in order, on a Context seeded with the
\* caller's input Context, variables and string.
C9_SubPipeline ==
  (mode = "run_stream" /\ Len(call_functions) > 1) =>
    /\ functions = SubSeq(call_functions, 1, Len(call_functions) - 1)
    /\ (pc = "loop" /\ trace = <<>>) =>
         context = SeedContext(input_context, input_vars, input_str, context.oid)

RECURSIVE Concat(_)
Concat(chunks) ==
  IF chunks = <<>> THEN "" ELSE Head(chunks) \o Concat(Tail(chunks))

\* C10: when a semantic function has streamed all the chunks of its client,
\* the input slot holds the chunks concatenated in order, and the variables
\* are those a non-streaming invocation given that whole completion would
\* have written.
C10_StreamConcat ==
  (mode = "run_stream" /\ is_semantic(stream_function)
     /\ trace # <<>> /\ Last.e = "stream_end") =>
    /\ pc = "done"
    /\ result.kind = "exhausted"
    /\ result.context.variables["input"] = Concat(yielded)
    /\ result.context.variables = merge_back(write_completion(trace[1].cin, Concat(yielded))).variables

C10_Witness ==
  /\ mode = "run_stream" /\ is_semantic(stream_function)
  /\ trace # <<>> /\ Last.e = "stream_end"
  /\ yielded = <<"a", "b">>
  /\ result.context.variables["input"] = "ab"

\* The streaming stage of a semantic function with a client has ended on a
\* fault of rendering or of the client.
StreamingFaulted ==
  /\ mode = "run_stream" /\ pc = "done" /\ trace # <<>>
  /\ is_semantic(stream_function) /\ stream_function.bound
  /\ \/ Last.e = "stream_fault"
     \/ Last.e = "stream" /\ result.context.last_exception = RenderFault

\* C11: a fault during streaming (in rendering, or raised by the client while
\* chunks are produced) marks the Context failed and then reaches the stream
\* consumer as a wrapped invocation-failure fault.
C11_StreamFaultSurfaced ==
  StreamingFaulted =>
    /\ result.context.error_occurred
    /\ result.kind = "raised"
    /\ result.exception = StreamError

\* C12: in run, a fault of rendering or of the client's completion call of a
\* semantic function (text or chat prompt) sets the error flag of the Context
\* and the invocation hands that same Context back without raising; run
\* returns it.
C12_SemanticFaultReturned ==
  mode = "run" =>
    \A k \in DOMAIN trace :
      (/\ trace[k].e = "invoke"
       /\ is_semantic(functions[trace[k].i]) /\ functions[trace[k].i].bound
       /\ trace[k].fault # NoException) =>
        /\ trace[k].cout.error_occurred
        /\ trace[k].cout.last_exception = trace[k].fault
        /\ trace[k].cout.last_error_description = trace[k].fault.msg
        /\ trace[k].cout.oid = trace[k].cin.oid
        /\ result = Returned(trace[k].cout)

C12_Witness ==
  /\ mode = "run" /\ pc = "done" /\ result.kind = "returned"
  /\ trace # <<>> /\ Last.e = "invoke"
  /\ functions[Last.i] = ChatFn
  /\ Last.fault = Exc("AIException", "e2")
  /\ result.context.error_occurred
  /\ client_calls # <<>>

\* C13: a semantic function without a client fails with the configuration
\* error before any client is called: no client call is ever made for a
\* function that has no client, its invocation fails with the ValueError, and
\* its stream raises without yielding a chunk.
C13_NoClientNoCall ==
  /\ \A k \in DOMAIN client_calls : call_functions[client_calls[k][1]].bound
  /\ mode = "run" =>
       \A k \in DOMAIN trace :
         (/\ trace[k].e = "invoke"
          /\ is_semantic(functions[trace[k].i]) /\ ~functions[trace[k].i].bound) =>
           /\ trace[k].fault = NoClient
           /\ trace[k].cout = fail(trace[k].cin, NoClient.msg, NoClient)
           /\ messages[trace[k].i] = <<>>
  /\ (/\ mode = "run_stream" /\ trace # <<>>
      /\ is_semantic(stream_function) /\ ~stream_function.bound) =>
       /\ pc = "done"
       /\ result = Raised(fail(trace[1].cin, NoClient.msg, NoClient), StreamError)
       /\ yielded = <<>>
       /\ client_calls = <<>>

C13_Witness ==
  /\ mode = "run" /\ pc = "done"
  /\ functions = <<TextFn, UnboundFn>>
  /\ Len(trace) > 1 /\ Last.e = "invoke" /\ Last.i = 2
  /\ client_calls = <<<<1, "complete">>>>
  /\ result.context.last_exception = NoClient

\* ======================================================= function registry
\* Names are sequences of characters.  NoName stands for None.
NoName == <<None>>
GLOBAL_SKILL == <<"_", "G", "L", "O", "B", "A", "L", "_", "F", "U", "N", "C", "T", "I", "O",
                  "N", "S", "_">>

IdentifierChars ==
  {"a", "b", "c", "d", "e", "f", "g", "h", "i", "j", "k", "l", "m", "n", "o", "p", "q", "r",
   "s", "t", "u", "v", "w", "x", "y", "z",
   "A", "B", "C", "D", "E", "F", "G", "H", "I", "J", "K", "L", "M", "N", "O", "P", "Q", "R",
   "S", "T", "U", "V", "W", "X", "Y", "Z",
   "0", "1", "2", "3", "4", "5", "6", "7", "8", "9", "_"}

\* The identifier grammar: not empty, letters, digits and underscores only.
is_identifier(name) == name # <<>> /\ \A i \in DOMAIN name : name[i] \in IdentifierChars

InvalidName == Exc("ConfigurationFault", "invalid name")
DuplicateRegistration == Exc("DuplicateRegistrationFault", "function already registered")
InvalidFunctionType == Exc("KernelException", "InvalidFunctionType")
FunctionOverloadNotSupported == Exc("KernelException", "FunctionOverloadNotSupported")
FunctionTypeNotSupported == Exc("AIException", "FunctionTypeNotSupported")
ClosureFault == Exc("TypeError", "NoneType object is not subscriptable")

\* validate_skill_name(value) / validate_function_name(value): the fault they
\* raise, NoException when the name passes.
validate_skill_name(value) == IF is_identifier(value) THEN NoException ELSE InvalidName
validate_function_name(value) == IF is_identifier(value) THEN NoException ELSE InvalidName

\* str.strip(): leading and trailing blanks removed
RECURSIVE strip(_)
strip(name) ==
  IF name = <<>> THEN name
  ELSE IF Head(name) = " " THEN strip(Tail(name))
  ELSE IF name[Len(name)] = " " THEN strip(SubSeq(name, 1, Len(name) - 1))
  ELSE name

\* A registered function: its identity, its kind and what it runs (the
\* procedure of a native function, the prompt of a semantic one).
Function(skill_name, name, is_sem, chat, body) ==
  [skill_name |-> skill_name, name |-> name, is_semantic |-> is_sem, chat |-> chat,
   body |-> body]

\* SkillCollection.has_function / has_native_function / has_semantic_function
has_function(collection, skill_name, name) ==
  \E f \in collection : f.skill_name = skill_name /\ f.name = name
has_native_function(collection, skill_name, name) ==
  \E f \in collection : f.skill_name = skill_name /\ f.name = name /\ ~f.is_semantic
has_semantic_function(collection, skill_name, name) ==
  \E f \in collection : f.skill_name = skill_name /\ f.name = name /\ f.is_semantic

\* Faulty variant of insertion_fault: the registry takes whatever it is given.
insertion_fault_none(collection, function) == NoException

\* What the registry checks at insertion: the identifier grammar of both
\* names, and that the (group, name) pair is free, whatever the kind of the
\* function that holds it.
insertion_fault(collection, function) ==
  IF ~is_identifier(function.skill_name) \/ ~is_identifier(function.name) THEN InvalidName
  ELSE IF has_function(collection, function.skill_name, function.name) THEN DuplicateRegistration
  ELSE NoException

\* The registry after the insertion of function (an entry with the same pair
\* would be replaced, were it let through).
inserted(collection, function) ==
  {f \in collection : ~(f.skill_name = function.skill_name /\ f.name = function.name)}
  \cup {function}

\* SkillCollection.add_native_function(function)
add_native_function(collection, function) ==
  LET e == insertion_fault(collection, function)
  IN [raised |-> e,
      collection |-> IF e = NoException THEN inserted(collection, function) ELSE collection]

\* SkillCollection.add_semantic_function(function)
add_semantic_function(collection, function) ==
  LET e == insertion_fault(collection, function)
  IN [raised |-> e,
      collection |-> IF e = NoException THEN inserted(collection, function) ELSE collection]

\* Kernel.func(skill_name, function_name): the native function if there is
\* one, else the semantic function
func(collection, skill_name, function_name) ==
  IF has_native_function(collection, skill_name, function_name)
    THEN CHOOSE f \in collection :
           f.skill_name = skill_name /\ f.name = function_name /\ ~f.is_semantic
    ELSE CHOOSE f \in collection :
           f.skill_name = skill_name /\ f.name = function_name /\ f.is_semantic

\* A procedure handed to register_native_function or found by import_skill:
\* marked by the sk_function decorator or not, with the name it declares.
Method(marked, name, body) == [marked |-> marked, name |-> name, body |-> body]

\* SKFunction.from_native_method(method, skill_name)
from_native_method(method, skill_name) ==
  Function(skill_name, method.name, FALSE, FALSE, method.body)

\* SemanticFunctionConfig: prompt_template_config.type, has_chat_prompt, the
\* prompt, prompt_template_config.default_services
FunctionConfig(type, chat, body, default_services) ==
  [type |-> type, chat |-> chat, body |-> body, default_services |-> default_services]

\* SKFunction.from_semantic_config(skill_name, function_name, function_config)
from_semantic_config(skill_name, function_name, function_config) ==
  Function(skill_name, function_name, TRUE, function_config.chat, function_config.body)

\* if skill_name is None or skill_name == "": skill_name = SkillCollection.GLOBAL_SKILL
global_if_empty(skill_name) ==
  IF skill_name = NoName \/ skill_name = <<>> THEN GLOBAL_SKILL ELSE skill_name

\* Faulty variant of native_overloaded: the kernel does not look.
native_overloaded_unseen(skill_name, function_name) == FALSE

\* Faulty variant of native_overloaded: only native functions are looked for.
native_overloaded_same_kind(skill_name, function_name) ==
  has_native_function(skill_collection, skill_name, function_name)

\* if self.skills.has_function(skill_name, function_name), in register_native_function
native_overloaded(skill_name, function_name) ==
  has_function(skill_collection, skill_name, function_name)

\* Faulty variant of validated: the kernel leaves the names unchecked.
validated_unchecked(skill_name, function_name) == NoException

\* validate_skill_name(skill_name); validate_function_name(function_name):
\* the fault of the first that raises
validated(skill_name, function_name) ==
  IF validate_skill_name(skill_name) # NoException THEN validate_skill_name(skill_name)
  ELSE validate_function_name(function_name)

registry_frame == <<handler_vars, call_vars, service_vars>>

register_native_function(skill_name, sk_function) ==
  /\ UNCHANGED registry_frame
  /\ LET function_name == sk_function.name
         resolved == global_if_empty(skill_name)
         key == <<resolved, function_name>>
         added == add_native_function(skill_collection,
                                      from_native_method(sk_function, resolved))
         raised == IF ~sk_function.marked THEN InvalidFunctionType
                   ELSE IF validated(resolved, function_name) # NoException
                     THEN validated(resolved, function_name)
                   ELSE IF native_overloaded(resolved, function_name)
                     THEN FunctionOverloadNotSupported
                   ELSE added.raised
     IN /\ last_op' = Call("register_native_function", key, raised)
        /\ skill_collection' = IF raised = NoException THEN added.collection
                               ELSE skill_collection

\* Faulty variant of resolved_service: resolution never fails.
resolved_service_always(function_config) ==
  [raised |-> NoException, factory |-> as_factory(ChatTextClient)]

\* self.get_ai_service(ChatCompletionClientBase or TextCompletionClientBase,
\* default_services[0] if there is one, else None)
resolved_service(function_config) ==
  get_ai_service(IF function_config.chat THEN "ChatCompletionClientBase"
                 ELSE "TextCompletionClientBase",
                 IF Len(function_config.default_services) > 0
                   THEN function_config.default_services[1] ELSE None)

\* Kernel._create_semantic_function: the faults it can end with (NoException:
\* the function is built and bound).  service.__closure__[0].cell_contents is
\* the client when the kernel wrapped a client object itself; for a factory
\* the caller supplied it is whatever that function closes over, if anything.
create_semantic_function_faults(function_config) ==
  IF function_config.type # "completion" THEN {FunctionTypeNotSupported}
  ELSE IF resolved_service(function_config).raised # NoException
    THEN {resolved_service(function_config).raised}
  ELSE IF resolved_service(function_config).factory.wraps_instance THEN {NoException}
  ELSE {NoException, ClosureFault}

\* The body of register_semantic_function: every way it can end.
registered_semantic(skill_name, function_name, function_config) ==
  LET resolved == global_if_empty(skill_name)
      added == add_semantic_function(skill_collection,
                 from_semantic_config(resolved, function_name, function_config))
  IN IF validated(resolved, function_name) # NoException
       THEN {[raised |-> validated(resolved, function_name), collection |-> skill_collection]}
     ELSE {IF e # NoException THEN [raised |-> e, collection |-> skill_collection] ELSE added :
             e \in create_semantic_function_faults(function_config)}

register_semantic_function(skill_name, function_name, function_config) ==
  /\ UNCHANGED registry_frame
  /\ \E o \in registered_semantic(skill_name, function_name, function_config) :
       /\ last_op' = Call("register_semantic_function",
                          <<global_if_empty(skill_name), function_name>>, o.raised)
       /\ skill_collection' = o.collection

\* f"f_{str(uuid4()).replace('-', '_')}": a name no function has yet
GeneratedName == <<"f", "_", "0">>

create_semantic_function(prompt_template, function_name, skill_name) ==
  /\ UNCHANGED registry_frame
  /\ function_name = NoName => \A f \in skill_collection : f.name # GeneratedName
  /\ LET name == IF function_name # NoName THEN function_name ELSE GeneratedName
         config == FunctionConfig("completion", FALSE, prompt_template, <<>>)
         outcomes ==
           IF validate_function_name(name) # NoException
             THEN {[raised |-> validate_function_name(name), collection |-> skill_collection]}
           ELSE IF skill_name # NoName /\ validate_skill_name(skill_name) # NoException
             THEN {[raised |-> validate_skill_name(skill_name), collection |-> skill_collection]}
           ELSE registered_semantic(skill_name, name, config)
     IN \E o \in outcomes :
          /\ last_op' = Call("create_semantic_function", <<global_if_empty(skill_name), name>>,
                             o.raised)
          /\ skill_collection' = o.collection

\* The loop of import_skill over the functions it built: each is inserted in
\* turn; a fault of the registry ends the loop and leaves import_skill.
RECURSIVE add_all(_, _)
add_all(collection, built) ==
  IF built = <<>> THEN [raised |-> NoException, collection |-> collection]
  ELSE LET added == add_native_function(collection, Head(built))
       IN IF added.raised # NoException THEN added
          ELSE add_all(added.collection, Tail(built))

import_skill(skill_instance, skill_name) ==
  /\ UNCHANGED registry_frame
  /\ LET resolved == IF strip(skill_name) = <<>> THEN GLOBAL_SKILL ELSE skill_name
         candidates == SelectSeq(skill_instance, LAMBDA m : m.marked)
         built == [i \in DOMAIN candidates |-> from_native_method(candidates[i], resolved)]
         overloaded == \E i, j \in DOMAIN built :
                         i # j /\ built[i].name = built[j].name
         added == add_all(skill_collection, built)
     IN IF overloaded
          THEN /\ last_op' = Call("import_skill", <<resolved>>, FunctionOverloadNotSupported)
               /\ UNCHANGED skill_collection
          ELSE /\ last_op' = Call("import_skill", <<resolved>>, added.raised)
               /\ skill_collection' = added.collection

\* The names, procedures and configurations the registration calls are made with.
NameF == <<"f">>
NameH == <<"h">>
NameG == <<"g">>
NameBad == <<"f", " ", "1">>
NameBlank == <<" ">>

MethodF1 == Method(TRUE, NameF, "m1")
MethodF2 == Method(TRUE, NameF, "m2")
MethodH == Method(TRUE, NameH, "m1")
MethodBad == Method(TRUE, NameBad, "m1")
Unmarked == Method(FALSE, NoName, "m0")
Methods == {MethodF1, MethodH, MethodBad, Unmarked}

TextConfig == FunctionConfig("completion", FALSE, "p1", <<>>)
ChatConfig == FunctionConfig("completion", TRUE, "p1", <<>>)
TextConfigB == FunctionConfig("completion", FALSE, "p1", <<"b">>)
OtherTypeConfig == FunctionConfig("embedding", FALSE, "p1", <<>>)
FunctionConfigs == {TextConfig, ChatConfig, TextConfigB, OtherTypeConfig}

\* <<skill_name, function_name>> of register_semantic_function
RegisterArgs ==
  {<<NoName, NameF>>, <<<<>>, NameF>>, <<NameG, NameF>>, <<NameG, NameH>>,
   <<NameBad, NameF>>, <<NameG, NameBad>>, <<NameG, <<>>>>}

\* <<function_name, skill_name>> of create_semantic_function
CreateArgs ==
  {<<NameF, NoName>>, <<NameF, <<>>>>, <<NameF, NameG>>, <<NameBad, NameG>>,
   <<NoName, NoName>>}

\* <<skill_instance, skill_name>> of import_skill
ImportArgs ==
  {<<<<>>, <<>>>>, <<<<>>, NameBad>>, <<<<MethodH>>, NameBad>>, <<<<MethodH>>, NameBlank>>,
   <<<<MethodF1, MethodH>>, NameG>>, <<<<MethodF1, MethodF2>>, NameG>>,
   <<<<Unmarked, MethodH>>, NameG>>, <<<<MethodH, MethodBad>>, <<>>>>}

RegistryNext ==
  \/ \E sn \in {NoName, <<>>, NameG, NameBad}, m \in Methods : register_native_function(sn, m)
  \/ \E a \in RegisterArgs, cfg \in FunctionConfigs : register_semantic_function(a[1], a[2], cfg)
  \/ \E a \in CreateArgs : create_semantic_function("p1", a[1], a[2])
  \/ \E a \in ImportArgs : import_skill(a[1], a[2])
  \/ \E sv \in TextServicePool : add_text_completion_service("a", sv, "omitted")

RegistrySpec == Init /\ [][RegistryNext]_vars

\* ------------------------------------------------- function registry claims

RegistrationOps ==
  {"register_native_function", "register_semantic_function", "create_semantic_function",
   "import_skill"}

DuplicateFaults == {FunctionOverloadNotSupported, DuplicateRegistration}

\* The step is the call of the named entry point with these arguments.
NativeStep(sn, m) ==
  /\ last_op'.op = "register_native_function"
  /\ last_op'.key = <<global_if_empty(sn), m.name>>
  /\ register_native_function(sn, m)
SemanticStep(sn, fn, cfg) ==
  /\ last_op'.op = "register_semantic_function"
  /\ last_op'.key = <<global_if_empty(sn), fn>>
  /\ register_semantic_function(sn, fn, cfg)
CreateStep(fn, sn) ==
  /\ last_op'.op = "create_semantic_function"
  /\ last_op'.key[1] = global_if_empty(sn)
  /\ create_semantic_function("p1", fn, sn)
ImportStep(si, sn) ==
  /\ last_op'.op = "import_skill"
  /\ import_skill(si, sn)

\* Every entry the registry held is still there, unchanged.
EntriesKept == \A f \in skill_collection : f \in skill_collection'

\* The pair is held afterwards, and Kernel.func finds the function given.
Retrievable(collection, function) ==
  /\ has_function(collection, function.skill_name, function.name)
  /\ func(collection, function.skill_name, function.name) = function

\* The faults _create_semantic_function can end a registration with.
CreationFaults(cfg) == create_semantic_function_faults(cfg) \ {NoException}

NoSharedPair ==
  \A f \in skill_collection :
    ~(/\ has_native_function(skill_collection, f.skill_name, f.name)
      /\ has_semantic_function(skill_collection, f.skill_name, f.name))

\* C15: native and semantic functions share one namespace: no pair is ever
\* held by both kinds; a native registration under a pair a semantic function
\* holds is refused by the kernel (overload fault), a semantic registration
\* under a pair a native function holds raises, and either leaves the registry
\* as it was.
C15_OneNamespace ==
  /\ []NoSharedPair
  /\ [][ /\ last_op'.op = "register_native_function" =>
            \A sn \in {NoName, <<>>, NameG, NameBad}, m \in Methods :
              (/\ NativeStep(sn, m)
               /\ m.marked
               /\ has_semantic_function(skill_collection, global_if_empty(sn), m.name)) =>
                /\ last_op'.raised = FunctionOverloadNotSupported
                /\ UNCHANGED skill_collection
         /\ last_op'.op = "register_semantic_function" =>
            \A a \in RegisterArgs, cfg \in FunctionConfigs :
              (/\ SemanticStep(a[1], a[2], cfg)
               /\ has_native_function(skill_collection, global_if_empty(a[1]), a[2])) =>
                /\ last_op'.raised # NoException
                /\ UNCHANGED skill_collection
         /\ last_op'.op = "create_semantic_function" =>
            \A a \in CreateArgs :
              (/\ a[1] # NoName
               /\ CreateStep(a[1], a[2])
               /\ has_native_function(skill_collection, global_if_empty(a[2]), a[1])) =>
                /\ last_op'.raised # NoException
                /\ UNCHANGED skill_collection
       ]_vars

\* Both kinds are registered, and the last call was refused for a pair the
\* other kind holds: a semantic registration on a native function's pair, or a
\* native registration on a semantic function's pair.
C15_Witness ==
  /\ \E f, g \in skill_collection : f.is_semantic /\ ~g.is_semantic
  /\ \/ /\ last_op.op = "register_semantic_function"
        /\ last_op.raised = DuplicateRegistration
        /\ has_native_function(skill_collection, last_op.key[1], last_op.key[2])
     \/ /\ last_op.op = "register_native_function"
        /\ last_op.raised = FunctionOverloadNotSupported
        /\ has_semantic_function(skill_collection, last_op.key[1], last_op.key[2])

\* The procedures of a skill instance that import_skill builds functions from.
Marked(skill_instance) == SelectSeq(skill_instance, LAMBDA m : m.marked)

\* C16: names are validated at registration.  register_semantic_function and
\* create_semantic_function raise the validation fault, and
\* register_native_function raises, when the function name or a non-empty
\* group name is not an identifier, and the registry is left unchanged; an
\* absent or empty group name stands for the global group instead of being
\* refused (create_semantic_function alone refuses the empty string).
\* import_skill, which treats a blank group name the same way, raises on such
\* a name once it has a function to insert, with every existing entry left in
\* place; with nothing to insert it returns whatever the group name.
C16_EagerNameValidation ==
  [][ /\ last_op'.op = "register_native_function" =>
         \A sn \in {NoName, <<>>, NameG, NameBad}, m \in Methods :
           NativeStep(sn, m) =>
             LET g == global_if_empty(sn)
             IN /\ (~is_identifier(g) \/ (m.marked /\ ~is_identifier(m.name))) =>
                     /\ last_op'.raised = IF m.marked THEN InvalidName ELSE InvalidFunctionType
                     /\ UNCHANGED skill_collection
                /\ (/\ sn \in {NoName, <<>>} /\ m.marked /\ is_identifier(m.name)
                    /\ ~has_function(skill_collection, GLOBAL_SKILL, m.name)) =>
                     /\ last_op'.raised = NoException
                     /\ has_function(skill_collection', GLOBAL_SKILL, m.name)
      /\ last_op'.op = "register_semantic_function" =>
         \A a \in RegisterArgs, cfg \in FunctionConfigs :
           SemanticStep(a[1], a[2], cfg) =>
             /\ (~is_identifier(global_if_empty(a[1])) \/ ~is_identifier(a[2])) =>
                  /\ last_op'.raised = InvalidName
                  /\ UNCHANGED skill_collection
             /\ (a[1] \in {NoName, <<>>} /\ last_op'.raised = NoException) =>
                  has_function(skill_collection', GLOBAL_SKILL, a[2])
      /\ last_op'.op = "create_semantic_function" =>
         \A a \in CreateArgs :
           (/\ a[1] # NoName
            /\ CreateStep(a[1], a[2])
            /\ ~is_identifier(a[1]) \/ (a[2] # NoName /\ ~is_identifier(a[2]))) =>
             /\ last_op'.raised = InvalidName
             /\ UNCHANGED skill_collection
      /\ last_op'.op = "import_skill" =>
         \A a \in ImportArgs :
           ImportStep(a[1], a[2]) =>
             LET g == IF strip(a[2]) = <<>> THEN GLOBAL_SKILL ELSE a[2]
                 marked == Marked(a[1])
             IN /\ (/\ marked # <<>>
                    /\ \/ ~is_identifier(g)
                       \/ \E i \in DOMAIN marked : ~is_identifier(marked[i].name)) =>
                     /\ last_op'.raised # NoException
                     /\ EntriesKept
                /\ marked = <<>> =>
                     /\ last_op'.raised = NoException
                     /\ UNCHANGED skill_collection
    ]_vars

\* A registration was refused for a name while the global group holds a
\* function registered without a group name.
C16_Witness ==
  /\ last_op.op \in RegistrationOps
  /\ last_op.raised = InvalidName
  /\ has_function(skill_collection, GLOBAL_SKILL, NameF)

\* C16 as stated: in every entry point, a group name or function name that is
\* not a non-empty string of alphanumerics and underscores makes the call
\* raise and leaves the registry unchanged.
C16_EveryBadNameRaises ==
  [][ /\ last_op'.op = "register_native_function" =>
         \A sn \in {<<>>, NameG, NameBad}, m \in Methods :
           (/\ NativeStep(sn, m)
            /\ ~is_identifier(sn) \/ (m.marked /\ ~is_identifier(m.name))) =>
             /\ last_op'.raised # NoException
             /\ UNCHANGED skill_collection
      /\ last_op'.op = "register_semantic_function" =>
         \A a \in RegisterArgs, cfg \in FunctionConfigs :
           (/\ SemanticStep(a[1], a[2], cfg)
            /\ (a[1] # NoName /\ ~is_identifier(a[1])) \/ ~is_identifier(a[2])) =>
             /\ last_op'.raised # NoException
             /\ UNCHANGED skill_collection
      /\ last_op'.op = "create_semantic_function" =>
         \A a \in CreateArgs :
           (/\ a[1] # NoName
            /\ CreateStep(a[1], a[2])
            /\ ~is_identifier(a[1]) \/ (a[2] # NoName /\ ~is_identifier(a[2]))) =>
             /\ last_op'.raised # NoException
             /\ UNCHANGED skill_collection
      /\ last_op'.op = "import_skill" =>
         \A a \in ImportArgs :
           (/\ ImportStep(a[1], a[2])
            /\ \/ ~is_identifier(a[2])
               \/ \E i \in DOMAIN a[1] : a[1][i].marked /\ ~is_identifier(a[1][i].name)) =>
             /\ last_op'.raised # NoException
             /\ UNCHANGED skill_collection
    ]_vars

\* The capability the function needs has no service under the id its
\* configuration asks for, and no default.
NoSuitableService(cfg) ==
  LET services == IF cfg.chat THEN chat_services ELSE text_completion_services
      default == IF cfg.chat THEN default_chat_service ELSE default_text_completion_service
  IN /\ default = None
     /\ \/ Len(cfg.default_services) = 0
        \/ ~has_key(services, cfg.default_services[1])

\* C17: registering a semantic function of a supported type under valid names
\* while the capability it needs (chat for a chat prompt, text completion
\* otherwise) has no service under the requested id and no default raises the
\* service-not-found fault out of the registration call; the function is not
\* added and no Context is produced or changed.
C17_MissingServiceRaises ==
  [][ /\ last_op'.op = "register_semantic_function" =>
         \A a \in RegisterArgs, cfg \in FunctionConfigs :
           (/\ SemanticStep(a[1], a[2], cfg)
            /\ is_identifier(global_if_empty(a[1])) /\ is_identifier(a[2])
            /\ cfg.type = "completion"
            /\ NoSuitableService(cfg)) =>
             /\ last_op'.raised = ServiceNotFound
             /\ UNCHANGED <<skill_collection, call_vars>>
      /\ last_op'.op = "create_semantic_function" =>
         \A a \in CreateArgs :
           (/\ CreateStep(a[1], a[2])
            /\ is_identifier(IF a[1] = NoName THEN GeneratedName ELSE a[1])
            /\ a[2] = NoName \/ is_identifier(a[2])
            /\ NoSuitableService(TextConfig)) =>
             /\ last_op'.raised = ServiceNotFound
             /\ UNCHANGED <<skill_collection, call_vars>>
    ]_vars

\* A semantic registration under valid names was refused for want of a
\* service, and at another time one went through: the registry holds a
\* semantic function.
C17_Witness ==
  /\ last_op.op \in {"register_semantic_function", "create_semantic_function"}
  /\ last_op.raised = ServiceNotFound
  /\ is_identifier(last_op.key[1]) /\ is_identifier(last_op.key[2])
  /\ \E f \in skill_collection : f.is_semantic

\* ------------------------------------------------- AI service registry claims
Categories == {"text_completion", "chat", "text_embedding_generation"}

services_of(cat) ==
  IF cat = "text_completion" THEN text_completion_services
  ELSE IF cat = "chat" THEN chat_services
  ELSE text_embedding_generation_services

default_of(cat) ==
  IF cat = "text_completion" THEN default_text_completion_service
  ELSE IF cat = "chat" THEN default_chat_service
  ELSE default_text_embedding_generation_service

RemovingOps ==
  {"remove_" \o cat \o "_service" : cat \in Categories}
  \cup {"clear_all_" \o cat \o "_services" : cat \in Categories}
  \cup {"clear_all_services"}

\* C18: in every step that is not a remove or a clear, for each category: the
\* first service registered in an empty category becomes its default; after
\* that the default changes only in a set_default call of that category that
\* returned, to the id given, which was registered there; and a set_default
\* call with an id not registered there raises and changes nothing.
C18_DefaultIsFirst ==
  [][\A cat \in Categories :
       last_op'.op \notin RemovingOps =>
         /\ (services_of(cat) = <<>> /\ services_of(cat)' # <<>>) =>
              /\ Len(services_of(cat)') = 1
              /\ default_of(cat)' = services_of(cat)'[1].service_id
         /\ (services_of(cat) # <<>> /\ default_of(cat)' # default_of(cat)) =>
              /\ last_op' = Call("set_default_" \o cat \o "_service", default_of(cat)', NoException)
              /\ has_key(services_of(cat), default_of(cat)')
         /\ (/\ last_op'.op = "set_default_" \o cat \o "_service"
             /\ ~has_key(services_of(cat), last_op'.key)) =>
              /\ last_op'.raised = ServiceMissing
              /\ UNCHANGED service_vars]_vars

C18_Witness ==
  /\ dict_keys(text_completion_services) = <<"b", "a">>
  /\ default_text_completion_service = "b"
  /\ last_op = Call("add_text_completion_service", "a", NoException)
  /\ dict_keys(chat_services) = <<"a">>
  /\ default_chat_service = "a"

\* What one add call does to its own category when the id is already there:
\* rejected (raises, nothing changes) when overwrite is off, else the factory
\* under the id is replaced in place and the default stays.
AddOnRegisteredId(services, default, service_id, service, overwrite) ==
  has_key(services, service_id) =>
    IF ~overwrite
      THEN /\ last_op'.raised = ServiceExists
           /\ UNCHANGED service_vars
      ELSE /\ last_op'.raised = NoException
           /\ dict_keys(services') = dict_keys(services)
           /\ dict_get(services', service_id) = as_factory(service)
           /\ default' = default

\* C19: an add call whose overwrite is off (False; left out, it is False for
\* embedding services and True for text and chat services) rejects an id
\* already registered in its category, raising and leaving every factory and
\* default as it was; with overwrite on, the factory under that id is
\* replaced and the category's default id stays.
C19_DuplicateIds ==
  [][ /\ last_op'.op = "add_text_completion_service" =>
           \A sv \in TextServicePool, ow \in OverwriteChoices(TRUE) :
             add_text_completion_service(last_op'.key, sv, ow) =>
               AddOnRegisteredId(text_completion_services, default_text_completion_service,
                                 last_op'.key, sv, overwrite_value(ow, TRUE))
      /\ last_op'.op = "add_chat_service" =>
           \A sv \in ServicePool, ow \in OverwriteChoices(TRUE) :
             add_chat_service(last_op'.key, sv, ow) =>
               AddOnRegisteredId(chat_services, default_chat_service,
                                 last_op'.key, sv, overwrite_value(ow, TRUE))
      /\ last_op'.op = "add_text_embedding_generation_service" =>
           \A ow \in OverwriteChoices(FALSE) :
             add_text_embedding_generation_service(last_op'.key, ChatOnlyClient, ow) =>
               AddOnRegisteredId(text_embedding_generation_services,
                                 default_text_embedding_generation_service,
                                 last_op'.key, ChatOnlyClient, overwrite_value(ow, FALSE))
    ]_vars

C19_Witness ==
  /\ last_op = Call("add_chat_service", "b", ServiceExists)
  /\ dict_keys(chat_services) = <<"a", "b">>
  /\ dict_get(chat_services, "b") = as_factory(ChatOnlyClient)
  /\ default_chat_service = "a"

\* C20: after add_chat_service has registered a service whose client is a
\* text-completion client as well, given as a client object or as a factory,
\* the id resolves in the chat category and in the text-completion category,
\* to the same factory.
C20_ChatAlsoText ==
  (/\ last_op.op = "add_chat_service" /\ last_op.raised = NoException
   /\ dict_get(chat_services, last_op.key).text) =>
    /\ get_ai_service("ChatCompletionClientBase", last_op.key).raised = NoException
    /\ get_ai_service("TextCompletionClientBase", last_op.key).raised = NoException
    /\ get_ai_service("TextCompletionClientBase", last_op.key).factory
         = get_ai_service("ChatCompletionClientBase", last_op.key).factory

\* The type get_ai_service is asked for, per category.
TypeOf(cat) ==
  IF cat = "text_completion" THEN "TextCompletionClientBase"
  ELSE IF cat = "chat" THEN "ChatCompletionClientBase"
  ELSE "EmbeddingGeneratorBase"

\* C21: whatever services are registered, get_ai_service returns the factory
\* stored under a given registered id; with no id (None or empty) the factory
\* stored under the category's default; it raises for a given id that is not
\* registered (default or not), for no id when there is no default, and for a
\* type that is none of the three capabilities.  What it returns is the stored
\* factory itself, not a client made by it.
C21_Resolution ==
  /\ \A cat \in Categories, id \in {None, "", "a", "b"} :
       LET r == get_ai_service(TypeOf(cat), id)
           given == id # None /\ id # ""
       IN /\ (given /\ has_key(services_of(cat), id)) =>
               r = [raised |-> NoException, factory |-> dict_get(services_of(cat), id)]
          /\ (given /\ ~has_key(services_of(cat), id)) => r.raised = ServiceNotFound
          /\ (~given /\ default_of(cat) # None) =>
               /\ has_key(services_of(cat), default_of(cat))
               /\ r = [raised |-> NoException,
                       factory |-> dict_get(services_of(cat), default_of(cat))]
          /\ (~given /\ default_of(cat) = None) => r.raised = ServiceNotFound
  /\ \A id \in {None, "", "a", "b"} : get_ai_service("object", id).raised = UnknownServiceType

\* Two chat services with different factories, the default being the second:
\* a lookup by the other id and a lookup without id give different factories,
\* and the text category, left empty, has nothing to give.
C21_Witness ==
  /\ dict_keys(chat_services) = <<"a", "b">>
  /\ default_chat_service = "b"
  /\ get_ai_service("ChatCompletionClientBase", "a").factory
       # get_ai_service("ChatCompletionClientBase", None).factory
  /\ get_ai_service("ChatCompletionClientBase", None).factory = dict_get(chat_services, "b")
  /\ get_ai_service("TextCompletionClientBase", None).raised = ServiceNotFound

\* ----------------------------------------------------- firing the handlers
\* The handlers a program registers on one Kernel.
HandlerPool == {"h1", "h2", "h3"}

\* Kernel.on_function_invoking / on_function_invoked called on the handlers
\* registered now: last_op keeps the handlers that were called, in the order
\* of the calls, and whether one of them raised.
fired(op, handlers, outcomes) ==
  {Call(op, SubSeq(handlers, 1, args.called),
        IF args.raised THEN HandlerFault ELSE NoException) : args \in outcomes}

fire_function_invoking ==
  /\ pc = "idle"
  /\ last_op' \in fired("on_function_invoking", function_invoking_handlers,
                        on_function_invoking(function_invoking_handlers))
  /\ UNCHANGED <<handler_vars, call_vars, skill_collection, service_vars>>

fire_function_invoked ==
  /\ pc = "idle"
  /\ last_op' \in fired("on_function_invoked", function_invoked_handlers,
                        on_function_invoked(function_invoked_handlers))
  /\ UNCHANGED <<handler_vars, call_vars, skill_collection, service_vars>>

HandlerNext ==
  \/ \E h \in HandlerPool : add_function_invoking_handler(h)
  \/ \E h \in HandlerPool : add_function_invoked_handler(h)
  \/ \E h \in HandlerPool : remove_function_invoking_handler(h)
  \/ \E h \in HandlerPool : remove_function_invoked_handler(h)
  \/ fire_function_invoking
  \/ fire_function_invoked

HandlerSpec == Init /\ [][HandlerNext]_vars

\* ------------------------------------------------------------ handler claims
IsIn(handlers, h) == \E k \in DOMAIN handlers : handlers[k] = h
NoRepeats(handlers) ==
  \A j, k \in DOMAIN handlers : handlers[j] = handlers[k] => j = k

\* What add and remove do to one list of handlers in a step.
AddKeepsOrder(handlers, h) ==
  handlers' = IF IsIn(handlers, h) THEN handlers ELSE Append(handlers, h)
RemoveKeepsOrder(handlers, h) ==
  IF IsIn(handlers, h)
    THEN \E k \in DOMAIN handlers :
           /\ handlers[k] = h
           /\ handlers' = SubSeq(handlers, 1, k - 1) \o SubSeq(handlers, k + 1, Len(handlers))
    ELSE handlers' = handlers

\* The handlers called by the firing recorded in last_op', against the list
\* registered: all of them, once each, in registration order; when one
\* raises, those up to and including it.
CalledInOrder(handlers) ==
  /\ last_op'.raised = NoException => last_op'.key = handlers
  /\ last_op'.raised # NoException =>
       /\ last_op'.key # <<>>
       /\ last_op'.key = SubSeq(handlers, 1, Len(last_op'.key))

\* C22: a list of handlers never holds a handler twice; adding a handler
\* appends it, or leaves the list as it is when the handler is already there;
\* removing one takes it out and keeps the order of the others, or changes
\* nothing when it is not there; and firing an event calls the handlers
\* registered at that moment once each in registration order, stopping after
\* one that raises.
C22_HandlersInOrder ==
  /\ [](NoRepeats(function_invoking_handlers) /\ NoRepeats(function_invoked_handlers))
  /\ [][ /\ \A h \in HandlerPool :
              /\ add_function_invoking_handler(h) =>
                   AddKeepsOrder(function_invoking_handlers, h)
              /\ add_function_invoked_handler(h) =>
                   AddKeepsOrder(function_invoked_handlers, h)
              /\ remove_function_invoking_handler(h) =>
                   RemoveKeepsOrder(function_invoking_handlers, h)
              /\ remove_function_invoked_handler(h) =>
                   RemoveKeepsOrder(function_invoked_handlers, h)
         /\ (last_op'.op = "on_function_invoking" /\ fire_function_invoking) =>
              CalledInOrder(function_invoking_handlers)
         /\ (last_op'.op = "on_function_invoked" /\ fire_function_invoked) =>
              CalledInOrder(function_invoked_handlers)
       ]_vars

\* Three handlers were registered in the order h2, h3, h1, h3 was removed and
\* h2 added again, and the event just fired called h2 then h1.
C22_Witness ==
  /\ function_invoking_handlers = <<"h2", "h1">>
  /\ last_op.op = "on_function_invoking"
  /\ last_op.raised = NoException
  /\ last_op.key = <<"h2", "h1">>

\* ------------------------------------------------------ seeding the Context
\* The inputs a caller can give: a Context of its own or none, variables or
\* none (a ContextVariables object always has its input slot), a string or
\* none.
SeedVariables ==
  {[k \in Keys |-> IF k = "input" THEN i ELSE q] : i \in {"", "i"}, q \in {Absent, "v"}}
SeedContexts ==
  {SKContext(1, [k \in Keys |-> IF k = "input" THEN i ELSE q]) :
     i \in {"", "q"}, q \in {Absent, "w"}}
SeedStrs == {None, "", "s"}

\* The first part of run_async (and of run_stream_async given one function):
\* from the call to the Context the loop starts with.
seed(entry, ic, iv, is) ==
  /\ pc = "idle"
  /\ mode' = entry
  /\ input_context' = ic
  /\ input_vars' = iv
  /\ input_str' = is
  /\ context' = SeedContext(ic, iv, is, next_oid)
  /\ next_oid' = IF ic = NoContext THEN next_oid + 1 ELSE next_oid
  /\ pc' = "seeded"
  /\ UNCHANGED <<handler_vars, kernel_vars, call_functions, functions, stream_function,
                 func_index, pipeline_step, messages, completion, yielded, result, repeats,
                 client_calls, trace>>

SeedNext ==
  \E ic \in SeedContexts \cup {NoContext}, iv \in SeedVariables \cup {NoVars},
     is \in SeedStrs :
    \/ seed("run", ic, iv, is)
    \/ seed("run_stream", ic, iv, is)

SeedSpec == Init /\ [][SeedNext]_vars

\* ------------------------------------------------------------ seeding claims
\* C23: when the caller gives a Context together with variables or a string,
\* every variable the Context already had, its input slot included, keeps its
\* value in the Context the run starts with.
C23_ContextKept ==
  (pc = "seeded" /\ input_context # NoContext) =>
    \A k \in Keys :
      input_context.variables[k] # Absent =>
        context.variables[k] = input_context.variables[k]

\* C24: with no Context but an input string and input variables, the seeded
\* Context is a new one whose input slot is the input string and whose other
\* variables are those of the input variables.
C24_StringFirst ==
  (pc = "seeded" /\ input_context = NoContext /\ input_str # None /\ input_vars # NoVars) =>
    /\ context.variables["input"] = input_str
    /\ \A k \in Keys \ {"input"} : context.variables[k] = input_vars[k]
    /\ context.oid >= FirstOid
    /\ ~context.error_occurred

\* run was given the string "s" and variables whose input slot holds "i" and
\* whose question holds "v".
C24_Witness ==
  /\ pc = "seeded" /\ mode = "run"
  /\ input_context = NoContext
  /\ input_str = "s"
  /\ input_vars["input"] = "i" /\ input_vars["question"] = "v"
  /\ context.variables["input"] = "s" /\ context.variables["question"] = "v"

\* ------------------------------------------------------------ run_async claims
\* C25: when the list given to run holds an element that is no function, run
\* ends by raising to its caller, wherever the element stands and however the
\* functions before it ended.
C25_NonFunctionRaises ==
  (/\ mode = "run" /\ pc = "done"
   /\ \E i \in DOMAIN call_functions : ~isSKFunctionBase(call_functions[i])) =>
    result.kind = "raised"

\* ------------------------------------------------ the chat template by itself
\* A ChatPromptTemplate used directly: built, given messages, rendered,
\* serialised and restored. messages holds its history at place 1.
MaxHistory == 3    \* longest history a caller builds with add_message

ChatRoles == {"system", "user", "assistant", "tool"}
ChatTexts == {None, "U"}
SystemPrompts == {None, "S"}

\* ChatPromptTemplate.__init__: the system prompt of the settings, when there
\* is one, is the first message.
new_template(chat_system_prompt) ==
  IF chat_system_prompt # None THEN add_message(<<>>, "system", chat_system_prompt) ELSE <<>>

\* ChatMessage.as_dict: model_dump(exclude_none, by_alias) without the content
\* template; fixed_content is written under its alias "content".
as_dict(m) ==
  IF m.content = None
    THEN [k \in {"role"} |-> m.role]
    ELSE [k \in {"role", "content"} |-> IF k = "role" THEN m.role ELSE m.content]

\* ChatPromptTemplate.dump_messages
dump(msgs) == [i \in DOMAIN msgs |-> as_dict(msgs[i])]

IndexFault == Exc("IndexError", "list index out of range")
KeyFault(k) == Exc("KeyError", k)

\* ChatPromptTemplate.restore(messages, template, engine, prompt_config): the
\* template it returns, or the fault that leaves it. Each dict is read under
\* the keys "role" and "message".
restore(dicts, chat_system_prompt) ==
  LET base == new_template(chat_system_prompt)
      empty == chat_system_prompt # None /\ Len(dicts) = 0
      pops == chat_system_prompt # None /\ Len(dicts) > 0 /\ dicts[1]["role"] = "system"
      rest == IF pops THEN Tail(dicts) ELSE dicts
      missing == \/ pops /\ "message" \notin DOMAIN dicts[1]
                 \/ \E i \in DOMAIN rest : "message" \notin DOMAIN rest[i]
  IN IF empty THEN [raised |-> IndexFault, messages |-> <<>>]
     ELSE IF missing THEN [raised |-> KeyFault("message"), messages |-> <<>>]
     ELSE [raised |-> NoException,
           messages |-> base \o [i \in DOMAIN rest |->
                                   add_message(<<>>, rest[i]["role"], rest[i]["message"])[1]]]

chat_frame ==
  UNCHANGED <<handler_vars, mode, call_functions, functions, stream_function, input_context,
              input_vars, input_str, pc, func_index, pipeline_step, context, completion,
              yielded, result, repeats, next_oid, client_calls, trace, skill_collection,
              service_vars>>

\* ChatPromptTemplate(template, engine, prompt_config)
new_chat_template(chat_system_prompt) ==
  /\ pc = "idle"
  /\ messages' = <<new_template(chat_system_prompt)>>
  /\ last_op' = Call("ChatPromptTemplate", chat_system_prompt, NoException)
  /\ chat_frame

\* chat_template.add_message(role, message)
chat_add_message(role, message) ==
  /\ pc = "idle"
  /\ Len(messages) = 1
  /\ Len(messages[1]) < MaxHistory
  /\ messages' = <<add_message(messages[1], role, message)>>
  /\ last_op' = Call("add_message", role, NoException)
  /\ chat_frame

\* chat_template.render_messages_async(context): the rendering of a message
\* can fail, after the user message was added.
chat_render_messages_async ==
  /\ pc = "idle"
  /\ Len(messages) = 1
  /\ \/ /\ messages' = <<render_messages(messages[1], OkContext)>>
        /\ last_op' = Call("render_messages_async",
                           dump(render_messages(messages[1], OkContext)), NoException)
     \/ /\ messages' = <<with_user_message(messages[1])>>
        /\ last_op' = Call("render_messages_async", <<>>, RenderFault)
  /\ chat_frame

\* chat_template.dump_messages()
chat_dump_messages ==
  /\ pc = "idle"
  /\ Len(messages) = 1
  /\ last_op' = Call("dump_messages", dump(messages[1]), NoException)
  /\ UNCHANGED messages
  /\ chat_frame

\* Message lists a caller writes by hand, in the form restore reads.
WrittenLists ==
  {<<>>,
   <<[role |-> "system", message |-> "S0"], [role |-> "user", message |-> "U"]>>,
   <<[role |-> "user", message |-> "U"], [role |-> "assistant", message |-> "R"]>>}

\* ChatPromptTemplate.restore(dicts, ...) of a list just dumped, or of a list
\* written by hand; the template in hand becomes the restored one.
chat_restore(chat_system_prompt) ==
  /\ pc = "idle"
  /\ Len(messages) = 1
  /\ \E dicts \in (IF last_op.op = "dump_messages" THEN {last_op.key} ELSE WrittenLists) :
       LET r == restore(dicts, chat_system_prompt)
       IN /\ messages' = IF r.raised = NoException THEN <<r.messages>> ELSE messages
          /\ last_op' = Call(IF last_op.op = "dump_messages" THEN "restore_dump" ELSE "restore",
                             dicts, r.raised)
  /\ chat_frame

ChatNext ==
  \/ \E sp \in SystemPrompts : new_chat_template(sp)
  \/ \E role \in ChatRoles, message \in ChatTexts : chat_add_message(role, message)
  \/ chat_render_messages_async
  \/ chat_dump_messages
  \/ \E sp \in SystemPrompts : chat_restore(sp)

ChatSpec == Init /\ [][ChatNext]_vars

\* ------------------------------------------------------- chat template claims
RenderStep == last_op'.op = "render_messages_async"

LastIsUser(msgs) == Len(msgs) > 0 /\ msgs[Len(msgs)].role = "user"

\* C26: when a chat template is rendered the raw template is appended as a new
\* last user message exactly when the history is empty or its last message is
\* not a user message, whatever other role it has; after a user message
\* nothing is appended.
C26_AppendUnlessUser ==
  [][RenderStep =>
       IF LastIsUser(messages[1])
         THEN Len(messages'[1]) = Len(messages[1])
         ELSE /\ Len(messages'[1]) = Len(messages[1]) + 1
              /\ messages'[1][Len(messages'[1])].role = "user"
              /\ messages'[1][Len(messages'[1])].template = Template]_vars

\* ------------------------------------------------------ chat invocation claims
\* The state right after a chat semantic function was invoked by run_async
\* and recorded no fault.
ChatInvoked ==
  /\ mode = "run"
  /\ trace # <<>>
  /\ Last.e = "invoke"
  /\ is_semantic(functions[Last.i]) /\ functions[Last.i].chat
  /\ Last.fault = NoException

LastMessage(i) == messages[i][Len(messages[i])]

\* C27: after a successful non-streaming invocation of a chat semantic
\* function the last message of its history is an assistant message made from
\* the model's reply; when the reply has a completion text the Context's input
\* slot equals it, and when it has none (the model asked for a function call)
\* the message has no content and the input slot is the one handed in.
C27_ReplyRecorded ==
  ChatInvoked =>
    /\ Len(messages[Last.i]) > 0
    /\ LastMessage(Last.i).role = "assistant"
    /\ \E r \in ChatResults :
         /\ LastMessage(Last.i).template = r.completion
         /\ Last.cout.variables["input"] =
              IF r.completion # None THEN r.completion ELSE Last.cin.variables["input"]
         /\ r.function_call # None => Last.cout.objects.function_call = r.function_call

C27_Witness ==
  /\ ChatInvoked
  /\ LastMessage(Last.i).template = "c"
  /\ Last.cin.variables["input"] # "c"
  /\ Last.cout.variables["input"] = "c"

\* C27 as stated: after every successful invocation the last message is an
\* assistant message holding the reply and the input slot equals the
\* completion text.
C27_ReplyWritten ==
  ChatInvoked =>
    /\ LastMessage(Last.i).role = "assistant"
    /\ \E r \in ChatResults :
         /\ LastMessage(Last.i).template = r.completion
         /\ Last.cout.variables["input"] = r.completion

\* A history without its leading system message, the part the system-prompt
\* override rule leaves alone.
AfterSystem(msgs) ==
  IF Len(msgs) > 0 /\ msgs[1].role = "system" THEN Tail(msgs) ELSE msgs

\* The text a message holds: its rendered content, or the template it will
\* be rendered from.
TextOf(m) == IF m.content # None THEN m.content ELSE m.template

\* C28: restoring what dump_messages gave for a history returns a template
\* whose messages have, in order, the roles and contents of the original,
\* apart from the leading system message the settings' system prompt replaces.
C28_RoundTrip ==
  [][(last_op'.op = "restore_dump" /\ Len(messages[1]) > 0) =>
       /\ last_op'.raised = NoException
       /\ Len(AfterSystem(messages'[1])) = Len(AfterSystem(messages[1]))
       /\ \A i \in DOMAIN AfterSystem(messages[1]) :
            /\ AfterSystem(messages'[1])[i].role = AfterSystem(messages[1])[i].role
            /\ TextOf(AfterSystem(messages'[1])[i]) = AfterSystem(messages[1])[i].content]_vars

\* ------------------------------------------------------- the function object
\* SKFunction objects used directly: functions holds the objects made so far,
\* each with the client bound to it (_ai_service, None when there is none)
\* and its request settings (_ai_request_settings). None of them has a chat
\* prompt.
DefaultSettings == "AIRequestSettings()"

\* SKFunction.__init__
SKFunction(is_sem) ==
  [kind |-> IF is_sem THEN "semantic" ELSE "native", chat |-> FALSE, bound |-> FALSE,
   ai_service |-> None, ai_request_settings |-> DefaultSettings]

\* Faulty variant of verify_is_semantic: any function passes.
verify_is_semantic_skipped(fn) == NoException

\* SKFunction._verify_is_semantic / _verify_is_native: the fault they raise
verify_is_semantic(fn) ==
  IF is_semantic(fn) THEN NoException ELSE InvalidFunctionType

verify_is_native(fn) ==
  IF ~is_semantic(fn) THEN NoException ELSE InvalidFunctionType

NoFactory == Exc("ValueError", "service factory cannot be None")
NoSettings == Exc("ValueError", "request settings cannot be None")

\* SKFunction.set_ai_service(ai_service) and set_chat_service(chat_service):
\* the factory is called and its client bound.
set_ai_service(fn, ai_service) ==
  IF ai_service = None THEN [raised |-> NoFactory, object |-> fn]
  ELSE IF verify_is_semantic(fn) # NoException
    THEN [raised |-> verify_is_semantic(fn), object |-> fn]
  ELSE [raised |-> NoException,
        object |-> [fn EXCEPT !.ai_service = ai_service, !.bound = TRUE]]

set_chat_service(fn, chat_service) ==
  IF chat_service = None THEN [raised |-> NoFactory, object |-> fn]
  ELSE IF verify_is_semantic(fn) # NoException
    THEN [raised |-> verify_is_semantic(fn), object |-> fn]
  ELSE [raised |-> NoException,
        object |-> [fn EXCEPT !.ai_service = chat_service, !.bound = TRUE]]

\* SKFunction.set_ai_configuration(settings) and set_chat_configuration(settings)
set_ai_configuration(fn, settings) ==
  IF settings = None THEN [raised |-> NoSettings, object |-> fn]
  ELSE IF verify_is_semantic(fn) # NoException
    THEN [raised |-> verify_is_semantic(fn), object |-> fn]
  ELSE [raised |-> NoException, object |-> [fn EXCEPT !.ai_request_settings = settings]]

set_chat_configuration(fn, settings) ==
  IF settings = None THEN [raised |-> NoSettings, object |-> fn]
  ELSE IF verify_is_semantic(fn) # NoException
    THEN [raised |-> verify_is_semantic(fn), object |-> fn]
  ELSE [raised |-> NoException, object |-> [fn EXCEPT !.ai_request_settings = settings]]

\* SKFunction._invoke_semantic_async(context, settings) called directly: the
\* type check, then _local_func, whose missing-client fault is raised and
\* whose other faults are recorded on the Context.
invoke_semantic_async(fn, ctx) ==
  IF verify_is_semantic(fn) # NoException
    THEN {[raised |-> verify_is_semantic(fn), context |-> ctx]}
  ELSE IF client_missing(fn) THEN {[raised |-> NoClient, context |-> ctx]}
  ELSE {[raised |-> NoException, context |-> merge_back(o.context)] :
          o \in local_func_text(ctx)}

\* SKFunction._invoke_native_async(context) called directly: the type check,
\* then the delegate handler.
verified_native_async(fn, ctx, oid) ==
  IF verify_is_native(fn) # NoException
    THEN {[raised |-> verify_is_native(fn), context |-> ctx]}
  ELSE {[raised |-> IF o.raised THEN o.exception ELSE NoException,
         context |-> IF o.raised THEN ctx ELSE o.context] : o \in invoke_native_async(ctx, oid)}

Factories == {None, "text client", "chat client"}
Settings == {None, "settings"}

function_frame ==
  UNCHANGED <<handler_vars, mode, call_functions, stream_function, input_context,
              input_vars, input_str, pc, func_index, pipeline_step, messages, completion,
              yielded, result, repeats, client_calls, trace, skill_collection, service_vars>>

NewFunction(is_sem) ==
  /\ pc = "idle"
  /\ Len(functions) < MaxFuncs
  /\ functions' = Append(functions, SKFunction(is_sem))
  /\ last_op' = Call("SKFunction", <<Len(functions) + 1, is_sem>>, NoException)
  /\ UNCHANGED <<context, next_oid>>
  /\ function_frame

\* One of the four setters called on the function at place i with the
\* argument given: how the call ended and the object it leaves.
Setter(op, i, given, r) ==
  /\ pc = "idle"
  /\ functions' = [functions EXCEPT ![i] = r.object]
  /\ last_op' = Call(op, <<i, given>>, r.raised)
  /\ UNCHANGED <<context, next_oid>>
  /\ function_frame

SetAiService(i, ai_service) ==
  Setter("set_ai_service", i, ai_service, set_ai_service(functions[i], ai_service))

SetChatService(i, chat_service) ==
  Setter("set_chat_service", i, chat_service, set_chat_service(functions[i], chat_service))

SetAiConfiguration(i, settings) ==
  Setter("set_ai_configuration", i, settings, set_ai_configuration(functions[i], settings))

SetChatConfiguration(i, settings) ==
  Setter("set_chat_configuration", i, settings, set_chat_configuration(functions[i], settings))

InvokeSemantic(i) ==
  /\ pc = "idle"
  /\ \E o \in invoke_semantic_async(functions[i], OkContext) :
       /\ context' = o.context
       /\ last_op' = Call("_invoke_semantic_async", <<i, "context">>, o.raised)
  /\ UNCHANGED <<functions, next_oid>>
  /\ function_frame

InvokeNative(i) ==
  /\ pc = "idle"
  /\ \E o \in verified_native_async(functions[i], OkContext, FirstOid) :
       /\ context' = o.context
       /\ last_op' = Call("_invoke_native_async", <<i, "context">>, o.raised)
  /\ UNCHANGED <<functions, next_oid>>
  /\ function_frame

ArgumentFault ==
  Exc("TypeError", "_invoke_native_async() takes 2 positional arguments but 3 were given")

\* SKFunction.invoke(context=ctx): with a running event loop the coroutine
\* function is called with (context, settings) in a worker thread, which
\* _invoke_native_async does not accept; without one asyncio.run runs the
\* coroutine of the function's kind. Nothing is caught on either way.
invoke(fn, ctx, oid, loop_running) ==
  IF loop_running
    THEN IF is_semantic(fn) THEN invoke_semantic_async(fn, ctx)
         ELSE {[raised |-> ArgumentFault, context |-> ctx]}
    ELSE IF is_semantic(fn) THEN invoke_semantic_async(fn, ctx)
         ELSE verified_native_async(fn, ctx, oid)

\* function.invoke(context=OkContext), called inside a running event loop or not
InvokeSync(i, loop_running) ==
  /\ pc = "idle"
  /\ \E o \in invoke(functions[i], OkContext, FirstOid, loop_running) :
       /\ context' = o.context
       /\ last_op' = Call("invoke", <<i, loop_running>>, o.raised)
  /\ UNCHANGED <<functions, next_oid>>
  /\ function_frame

FunctionNext ==
  \/ \E i \in DOMAIN functions, loop_running \in BOOLEAN : InvokeSync(i, loop_running)
  \/ \E is_sem \in BOOLEAN : NewFunction(is_sem)
  \/ \E i \in DOMAIN functions, ai_service \in Factories \ {"chat client"} :
       SetAiService(i, ai_service)
  \/ \E i \in DOMAIN functions, chat_service \in Factories \ {"text client"} :
       SetChatService(i, chat_service)
  \/ \E i \in DOMAIN functions, settings \in Settings : SetAiConfiguration(i, settings)
  \/ \E i \in DOMAIN functions, settings \in Settings : SetChatConfiguration(i, settings)
  \/ \E i \in DOMAIN functions : InvokeSemantic(i)
  \/ \E i \in DOMAIN functions : InvokeNative(i)

FunctionSpec == Init /\ [][FunctionNext]_vars

\* --------------------------------------------------------- function object claims
SemanticOnly ==
  {"set_ai_service", "set_chat_service", "set_ai_configuration", "set_chat_configuration",
   "_invoke_semantic_async"}

\* C29: a semantic-only operation (the four setters, the semantic invocation)
\* called on a native function, and the native invocation called on a
\* semantic function, raise the invalid-function-type fault and leave the
\* client and the request settings of the function as they were. (A setter
\* given None raises its value fault before it looks at the function, and
\* changes nothing either.)
C29_WrongKindRaises ==
  [][/\ (last_op'.op \in SemanticOnly /\ ~is_semantic(functions[last_op'.key[1]])) =>
          /\ last_op'.raised =
               IF last_op'.key[2] # None THEN InvalidFunctionType
               ELSE IF last_op'.op \in {"set_ai_service", "set_chat_service"} THEN NoFactory
               ELSE NoSettings
          /\ functions' = functions
     /\ (last_op'.op = "_invoke_native_async" /\ is_semantic(functions[last_op'.key[1]])) =>
          /\ last_op'.raised = InvalidFunctionType
          /\ functions' = functions]_vars

C29_Witness ==
  /\ last_op.op = "set_chat_service"
  /\ last_op.key[2] = "chat client"
  /\ last_op.raised = InvalidFunctionType
  /\ functions[last_op.key[1]].kind = "native"
  /\ functions[last_op.key[1]].ai_service = None
  /\ \E j \in DOMAIN functions : functions[j].ai_service = "chat client"

\* ------------------------------------------- parameters of a native function
MaxParams == 2     \* most context parameters a procedure declares

\* ParameterView(name, description, default_value, type, required)
ParameterView(name, description, default_value, type, required) ==
  [name |-> name, description |-> description, default_value |-> default_value,
   type |-> type, required |-> required]

\* param.get(key, default) on a declared context parameter (a dict)
param_get(param, key, default) == IF key \in DOMAIN param THEN param[key] ELSE default

\* What the sk_function and sk_function_context_parameter decorators leave on
\* a procedure: the input description (Absent when the attribute is missing),
\* the input default value, and the declared context parameters (with
\* has_context_parameters FALSE when the attribute is missing).
Declaration(input_description, input_default_value, has_context_parameters, context_parameters) ==
  [input_description |-> input_description, input_default_value |-> input_default_value,
   has_context_parameters |-> has_context_parameters,
   context_parameters |-> context_parameters]

\* Faulty variant of parameters_of: the input parameter is put last.
parameters_of_input_last(method) ==
  LET declared == IF method.has_context_parameters
                    THEN [i \in DOMAIN method.context_parameters |->
                            LET param == method.context_parameters[i]
                            IN ParameterView(param["name"], param["description"],
                                             param["default_value"],
                                             param_get(param, "type", "string"),
                                             param_get(param, "required", FALSE))]
                    ELSE <<>>
  IN IF method.input_description \notin {Absent, None, ""}
       THEN declared \o <<ParameterView("input", method.input_description,
                                        method.input_default_value, "string", FALSE)>>
       ELSE declared

\* The parameters list from_native_method builds for a marked procedure.
parameters_of(method) ==
  LET declared == IF method.has_context_parameters
                    THEN [i \in DOMAIN method.context_parameters |->
                            LET param == method.context_parameters[i]
                            IN ParameterView(param["name"], param["description"],
                                             param["default_value"],
                                             param_get(param, "type", "string"),
                                             param_get(param, "required", FALSE))]
                    ELSE <<>>
  IN IF method.input_description \notin {Absent, None, ""}
       THEN <<ParameterView("input", method.input_description,
                            method.input_default_value, "string", FALSE)>> \o declared
       ELSE declared

\* Context parameters a procedure may declare: with the three keys only, with
\* a type, with required, with both.
DeclaredParams ==
  {[name |-> "param1", description |-> "Param 1 description", default_value |-> "v1"],
   [name |-> "param2", description |-> "", default_value |-> "", type |-> "number"],
   [name |-> "param3", description |-> "d3", default_value |-> "v3", required |-> TRUE],
   [name |-> "param4", description |-> "d4", default_value |-> "", type |-> "bool",
    required |-> FALSE]}

Declarations ==
  {Declaration(d, v, TRUE, ps) :
     d \in {None, "", "Mock input description"}, v \in {"", "default_input_value"},
     ps \in SeqsUpTo(DeclaredParams, MaxParams)}
  \cup {Declaration(d, "", FALSE, <<>>) : d \in {Absent, "", "Mock input description"}}

\* SKFunction.from_native_method(method, skill_name) of a marked procedure:
\* the call and the parameters of the function it returns.
BuildNative(method) ==
  /\ pc = "idle"
  /\ last_op' = Call("from_native_method",
                     [method |-> method, parameters |-> parameters_of(method)], NoException)
  /\ UNCHANGED <<handler_vars, call_vars, skill_collection, service_vars>>

ParameterNext == \E method \in Declarations : BuildNative(method)

ParameterSpec == Init /\ [][ParameterNext]_vars

\* ----------------------------------------------------------- parameter claims
HasInput(method) == method.input_description \notin {Absent, None, ""}

\* C30: the parameter list of a native function built from a marked procedure
\* has an 'input' parameter first (declared input description and default
\* value, type 'string', not required) exactly when the input description is
\* not empty, then every declared context parameter in declaration order,
\* with type 'string' and required False unless declared otherwise; with no
\* input description and no context parameter the list is empty.
C30_ParameterList ==
  last_op.op = "from_native_method" =>
    LET method == last_op.key.method
        built == last_op.key.parameters
        declared == method.context_parameters
        shift == IF HasInput(method) THEN 1 ELSE 0
    IN /\ Len(built) = shift + Len(declared)
       /\ HasInput(method) =>
            /\ built[1].name = "input"
            /\ built[1].description = method.input_description
            /\ built[1].default_value = method.input_default_value
            /\ built[1].type = "string"
            /\ built[1].required = FALSE
       /\ \A i \in DOMAIN declared :
            /\ built[shift + i].name = declared[i]["name"]
            /\ built[shift + i].description = declared[i]["description"]
            /\ built[shift + i].default_value = declared[i]["default_value"]
            /\ built[shift + i].type =
                 IF "type" \in DOMAIN declared[i] THEN declared[i]["type"] ELSE "string"
            /\ built[shift + i].required =
                 IF "required" \in DOMAIN declared[i] THEN declared[i]["required"] ELSE FALSE
       /\ (~HasInput(method) /\ Len(declared) = 0) => built = <<>>

C30_Witness ==
  /\ last_op.op = "from_native_method"
  /\ HasInput(last_op.key.method)
  /\ Len(last_op.key.parameters) = 3
  /\ last_op.key.parameters[1].name = "input"
  /\ last_op.key.parameters[2].required
  /\ last_op.key.parameters[3].type = "number"

\* ------------------------------------------------------ synchronous invoke claims
\* C31: the synchronous invoke gives the same resulting Context for a function
\* and an input whether it is called inside a running event loop or not, for
\* native and for semantic functions: what a call ends with on one way is a
\* way the call can end on the other.
C31_SameEitherWay ==
  [][last_op'.op = "invoke" =>
       [raised |-> last_op'.raised, context |-> context'] \in
         invoke(functions[last_op'.key[1]], OkContext, FirstOid, ~last_op'.key[2])]_vars

\* ------------------------------------------------------------ run to the end
\* A step of run_async's loop. The coroutine is awaited by its caller, so a
\* step that can be taken is taken; every invocation and every handler
\* returns or raises.
RunAsyncStep ==
  RunReturn \/ NotAFunctionStep \/ FailedContextStep \/ FunctionInvoking \/ Invoke
    \/ FunctionInvoked

FairSpec == Spec /\ WF_vars(RunAsyncStep)

\* The function-invoked event just fired asked for repeat and nothing else.
RepeatAsked ==
  /\ pc = "invoked"
  /\ Len(trace') = Len(trace) + 1
  /\ trace'[Len(trace')].e = "invoked"
  /\ trace'[Len(trace')].other
  /\ ~trace'[Len(trace')].cancel
  /\ ~trace'[Len(trace')].raised

C33_NoStreamOnFailed ==
  (mode = "run_stream" /\ isSKFunctionBase(stream_function)) =>
    \A k \in DOMAIN trace :
      trace[k].e = "stream" => ~trace[k].cin.error_occurred

\* ------------------------------------------------------------ event claims
\* C34: when a handler of the function-invoked event asks for cancel, run
\* returns the Context the function just invoked produced and nothing more is
\* invoked, even if repeat was asked for on the same event; on the
\* function-invoking event cancel likewise wins over skip, and run returns
\* the Context it had.
C34_CancelStops ==
  mode = "run" =>
    \A k \in DOMAIN trace :
      (trace[k].e \in {"invoking", "invoked"} /\ trace[k].cancel /\ ~trace[k].raised) =>
        /\ k = Len(trace)
        /\ pc = "done"
        /\ result = Returned(trace[k].cin)
        /\ trace[k].e = "invoked" =>
             /\ trace[k - 1].e = "invoke"
             /\ trace[k - 1].i = trace[k].i
             /\ trace[k].cin = trace[k - 1].cout

C34_Witness ==
  /\ mode = "run"
  /\ Len(functions) = 2
  /\ trace # <<>>
  /\ Last.e = "invoked" /\ Last.i = 1
  /\ Last.cancel /\ Last.other
  /\ result.kind = "returned"
  /\ result.context.variables["input"] = "c"
  /\ \E k \in DOMAIN trace : trace[k].e = "invoking" /\ ~trace[k].cancel

\* The function-invoked event at place k of the trace asked for repeat and
\* was acted on.
Repeated(k) ==
  /\ trace[k].e = "invoked"
  /\ trace[k].other /\ ~trace[k].cancel /\ ~trace[k].raised

\* The function-invoking event at place k let the invocation go ahead.
Passed(k) == ~trace[k].cancel /\ ~trace[k].other /\ ~trace[k].raised

\* C35: a repeat runs the whole step again for the same function without
\* advancing the step counter: the function-invoking event is fired again
\* first, on the Context the previous invocation produced, a handler of it
\* can cancel or skip the repeated invocation, and otherwise the function is
\* invoked again with that Context.
C35_RepeatWholeStep ==
  mode = "run" =>
    \A k \in DOMAIN trace :
      Repeated(k) =>
        /\ k = Len(trace) =>
             /\ pc = "loop"
             /\ func_index = trace[k].i
             /\ pipeline_step = trace[k].i - 1
        /\ k < Len(trace) =>
             /\ trace[k + 1].e = "invoking"
             /\ trace[k + 1].i = trace[k].i
             /\ trace[k + 1].cin = trace[k - 1].cout
        /\ (k + 1 = Len(trace) /\ trace[k + 1].cancel /\ ~trace[k + 1].raised) =>
             /\ pc = "done"
             /\ result = Returned(trace[k - 1].cout)
        /\ (k + 1 = Len(trace) /\ trace[k + 1].other /\ ~trace[k + 1].cancel
              /\ ~trace[k + 1].raised) =>
             /\ func_index = trace[k].i + 1
             /\ pipeline_step = trace[k].i
        /\ (k + 1 < Len(trace) /\ trace[k + 1].other) => trace[k + 2].i > trace[k].i
        /\ (k + 1 < Len(trace) /\ Passed(k + 1)) =>
             /\ trace[k + 2].e = "invoke"
             /\ trace[k + 2].i = trace[k].i
             /\ trace[k + 2].cin = trace[k - 1].cout

C35_Witness ==
  /\ mode = "run"
  /\ Len(trace) = 5
  /\ Repeated(3)
  /\ trace[4].e = "invoking" /\ Passed(4)
  /\ trace[5].e = "invoke" /\ trace[5].i = 1
  /\ trace[5].cin = trace[2].cout
  /\ trace[2].cout # trace[2].cin

\* What the handlers h1, h2, h3, registered in this order, leave behind when
\* they behave as b says: the event arguments and how many were called.
ThreeHandlers == <<"h1", "h2", "h3">>
InvokingFired(b) == FireHandlers(ThreeHandlers, b, {"cancel", "cancel_skip"}, {"skip", "cancel_skip"})
InvokedFired(b) == FireHandlers(ThreeHandlers, b, {"cancel", "cancel_repeat"}, {"repeat", "cancel_repeat"})

\* The handlers after the first one that raises are not called.
StopsAtRaise(b, a) ==
  a.raised =>
    /\ b[a.called] = "raise"
    /\ \A j \in 1..(a.called - 1) : b[j] # "raise"

\* C36: an exception raised by a handler of either event during run does not
\* leave run: it is recorded with fail on the Context run had at that point,
\* run returns that Context at once, no function is invoked afterwards, and
\* the handlers registered after the raising one are not called for that
\* event.
C36_HandlerFaultRecorded ==
  /\ mode = "run" =>
       \A k \in DOMAIN trace :
         trace[k].raised =>
           /\ trace[k].e \in {"invoking", "invoked"}
           /\ k = Len(trace)
           /\ pc = "done"
           /\ result = Returned(fail(trace[k].cin, HandlerFault.msg, HandlerFault))
           /\ context = result.context
  /\ \A b \in [1..3 -> InvokingBehaviours] : StopsAtRaise(b, InvokingFired(b))
  /\ \A b \in [1..3 -> InvokedBehaviours] : StopsAtRaise(b, InvokedFired(b))

C36_Witness ==
  /\ mode = "run"
  /\ Len(functions) = 2
  /\ trace # <<>>
  /\ Last.e = "invoked" /\ Last.i = 1 /\ Last.raised
  /\ result.kind = "returned"
  /\ result.context.error_occurred
  /\ result.context.last_exception = HandlerFault
  /\ result.context.variables["input"] = "c"

\* ------------------------------------------------------ default service claims
\* The ids of a category in registration order, without one of them.
KeysWithout(services, service_id) ==
  SelectSeq(dict_keys(services), LAMBDA k : k # service_id)

\* C37: after any sequence of add, set_default, remove and clear calls, in
\* each category the default id is unset exactly when no service is
\* registered there and is otherwise an id registered there; and removing the
\* current default makes the earliest-registered remaining id the default.
C37_DefaultRegistered ==
  /\ [](\A cat \in Categories :
          /\ default_of(cat) = None <=> services_of(cat) = <<>>
          /\ default_of(cat) # None => has_key(services_of(cat), default_of(cat)))
  /\ [][\A cat \in Categories :
          (/\ last_op'.op = "remove_" \o cat \o "_service"
           /\ last_op'.raised = NoException
           /\ last_op'.key = default_of(cat)) =>
            /\ dict_keys(services_of(cat)') = KeysWithout(services_of(cat), last_op'.key)
            /\ default_of(cat)' =
                 IF KeysWithout(services_of(cat), last_op'.key) = <<>> THEN None
                 ELSE KeysWithout(services_of(cat), last_op'.key)[1]]_vars

C37_Witness ==
  /\ last_op = Call("remove_chat_service", "a", NoException)
  /\ dict_keys(chat_services) = <<"b">>
  /\ default_chat_service = "b"
  /\ dict_keys(text_completion_services) = <<"a", "b">>
  /\ default_text_completion_service = "b"

\* C38: add_chat_service called with overwrite=False replaces no service
\* already registered: an id free in the chat category and registered in the
\* text-completion category keeps its text-completion factory, as every other
\* registered id in either category keeps its own.
C38_KeepsRegistered ==
  [][last_op'.op = "add_chat_service" =>
       \A sv \in ServicePool :
         add_chat_service(last_op'.key, sv, "False") =>
           \A id \in ServiceIds :
             /\ has_key(chat_services, id) =>
                  dict_get(chat_services', id) = dict_get(chat_services, id)
             /\ has_key(text_completion_services, id) =>
                  dict_get(text_completion_services', id) =
                    dict_get(text_completion_services, id)
    ]_vars

\* ------------------------------------------ a chat function invoked repeatedly
\* One chat function whose ChatPromptTemplate lives in function_config and is
\* shared by all of its invocations; each invocation gets a Context of its own.
\* messages holds the shared history at place 1, trace one "invoke" event per
\* invocation, last_op what the client was sent (nothing when it was not
\* called).
MaxTurns == 3      \* most invocations of the shared chat function

TurnInputs == {"q1", "q2"}

\* invoke_async(input=q) without a Context: a new SKContext with
\* ContextVariables(""), then context.variables.update(input)
TurnContext(oid, q) == SKContext(oid, update(ContextVariables(""), q))

\* messages = await as_chat_prompt.render_messages_async(context), the list
\* handed to client.complete_chat_async
sent_messages(msgs, ctx) == dump(render_messages(msgs, ctx))

turn_frame ==
  UNCHANGED <<handler_vars, mode, call_functions, functions, stream_function, input_context,
              input_vars, input_str, pc, func_index, pipeline_step, context, completion,
              yielded, result, repeats, client_calls, skill_collection, service_vars>>

\* The chat function is built: its template starts with the system prompt of
\* the settings, when there is one.
NewChatFunction(chat_system_prompt) ==
  /\ pc = "idle"
  /\ messages = <<>>
  /\ messages' = <<new_template(chat_system_prompt)>>
  /\ last_op' = Call("ChatPromptTemplate", chat_system_prompt, NoException)
  /\ UNCHANGED <<next_oid, trace>>
  /\ turn_frame

\* await function.invoke_async(input=q) of the shared chat function
InvokeChat(q) ==
  /\ pc = "idle"
  /\ Len(messages) = 1
  /\ Len(trace) < MaxTurns
  /\ LET ctx == TurnContext(next_oid, q)
     IN \E o \in invoke_async(ChatFn, ctx, messages[1], next_oid + 1) :
          /\ trace' = Append(trace, Event("invoke", 1, ctx, o.context, NoArgs, o.fault))
          /\ messages' = <<o.messages>>
          /\ last_op' = Call("invoke_async",
                             IF o.client_calls > 0 THEN sent_messages(messages[1], ctx) ELSE <<>>,
                             o.fault)
  /\ next_oid' = next_oid + 1
  /\ turn_frame

TurnNext ==
  \/ \E sp \in SystemPrompts : NewChatFunction(sp)
  \/ \E q \in TurnInputs : InvokeChat(q)

TurnSpec == Init /\ [][TurnNext]_vars

\* ------------------------------------------------------ shared history claims
\* C39: whatever completions of a shared chat function succeeded or failed
\* before, the history an invocation sends to the client ends with a user
\* message whose content is the prompt rendered from the Context of that
\* invocation.
C39_FreshUserTurn ==
  (last_op.op = "invoke_async" /\ Len(last_op.key) > 0) =>
    LET sent == last_op.key
        last == sent[Len(sent)]
        ctx == trace[Len(trace)].cin
    IN /\ last["role"] = "user"
       /\ "content" \in DOMAIN last
       /\ last["content"] = Render(Template, ctx)

\* ------------------------------------------------- streaming stage and events
\* C40: with a handler registered for the function-invoking event, run_stream
\* starts its streaming function only after that event was fired for it and
\* no handler asked for cancel or skip.
C40_StreamAfterInvoking ==
  (/\ mode = "run_stream"
   /\ isSKFunctionBase(stream_function)
   /\ function_invoking_handlers # <<>>) =>
    \A k \in DOMAIN trace :
      trace[k].e = "stream" =>
        \E j \in 1..(k - 1) :
          /\ trace[j].e = "invoking"
          /\ trace[j].i = trace[k].i
          /\ ~trace[j].cancel
          /\ ~trace[j].other

====
